---- MODULE Spec2Model ----
(***************************************************************************)
(* Model of the search / crawl adapters of deer-flow:                      *)
(*   - Crawler.crawl and Crawl4aiClient.crawl (client selection, primary   *)
(*     request, fallback requests, response normalization),                *)
(*   - get_web_search_tool (provider dispatch),                            *)
(*   - TavilySearchResultsWithImages._run / _arun and                      *)
(*     EnhancedTavilySearchAPIWrapper (raw_results, raw_results_async,     *)
(*     clean_results_with_images),                                         *)
(*   - the DuckDuckGo, Brave and SearxNG tools (request, normalization),   *)
(*   - two calls running at once, each on its own locals.                  *)
(* Every blocking HTTP call is split in two: the step that sends the       *)
(* request, and the step that receives the provider's answer (chosen by    *)
(* the environment) and runs the code up to the next request or the end.   *)
(***************************************************************************)
EXTENDS Integers, Sequences, FiniteSets, TLC

VARIABLES
    environ,           \* os.environ after load_dotenv(): name -> value or UNSET
    pc,                \* position of the one crawl call
    crawl_url,         \* argument `url` of the crawl call
    client,            \* the client Crawler.crawl selected
    requests,          \* HTTP requests sent by the crawl call, in order
    responses,         \* the outcome of each of these requests, in order
    response,          \* local `response` of Crawl4aiClient.crawl (index into responses)
    caught,            \* local `e` / error_msg: index of the request whose failure was caught
    result,            \* how the crawl call ended
    spc,               \* position of the one search call
    tool,              \* the tool object in use
    search_requests,   \* HTTP requests sent by the search side, in order
    search_result,     \* how the search call ended
    search_responses,  \* what the provider answered to each search request, in order
    async_result,      \* how the asynchronous variant (_arun) of the same call ended
    calls,             \* the locals of each of two concurrent calls: id -> frame
    call_args,         \* the arguments of a direct call of a wrapper method or helper
    crawl_output       \* what crawl_tool returned

crawl_vars == <<pc, crawl_url, client, requests, responses, response, caught, result,
               crawl_output>>
replay_vars == <<search_responses, async_result>>
search_vars == <<spc, tool, search_requests, search_result, search_responses, async_result,
                call_args>>
vars == <<environ, pc, crawl_url, client, requests, responses, response, caught,
          result, spc, tool, search_requests, search_result, search_responses,
          async_result, calls, call_args, crawl_output>>

(***************************************************************************)
(* Values                                                                  *)
(***************************************************************************)

\* An environment variable that is not set (os.getenv returns None / the default).
UNSET == "<unset>"

HTTP_OK == 200
HTTP_UNPROCESSABLE == 422

\* The statuses the environment answers with: success with and without a
\* body, the two the code names, a client error and a server error.
Statuses == {HTTP_OK, 204, 404, HTTP_UNPROCESSABLE, 500}

\* The URLs a caller asks to crawl.
Urls == {"u1", "u2"}

\* JSON values, tagged by their Python type after response.json().
\* A dict keeps its items in insertion order, as Python does.
JStr(s) == [t |-> "str", v |-> s]
JDict(items) == [t |-> "dict", items |-> items]
JList(items) == [t |-> "list", items |-> items]

IsDict(j) == j.t = "dict"
IsList(j) == j.t = "list"

\* `key in d` for a dict d.
HasKey(d, key) == \E i \in 1..Len(d.items) : d.items[i][1] = key

\* d[key] for a dict d that has the key.
Get(d, key) == d.items[CHOOSE i \in 1..Len(d.items) : d.items[i][1] = key][2]

\* Python truthiness of a JSON value.
Truthy(j) ==
    CASE j.t = "dict" -> Len(j.items) > 0
      [] j.t = "list" -> Len(j.items) > 0
      [] j.t = "str"  -> j.v # ""
      [] OTHER        -> FALSE

\* json.dumps(j): the value as JSON text.
Dumps(j) == [t |-> "dumps", v |-> j]

\* A response body: JSON text of a value, or text that is not JSON.
JsonBody(j) == [json |-> TRUE, v |-> j]
RawBody(s) == [json |-> FALSE, v |-> JStr(s)]

\* response.text of a body.
Text(b) == IF b.json THEN Dumps(b.v) ELSE [t |-> "text", v |-> b.v.v]

(***************************************************************************)
(* Configuration (src/config/tools.py)                                     *)
(***************************************************************************)

\* os.getenv(name, default)
Getenv(name, default) == IF environ[name] = UNSET THEN default ELSE environ[name]

\* `not value` for an optional string: None and "" are falsy.
Falsy(value) == value = UNSET \/ value = ""

CRAWLER_TYPE == Getenv("CRAWLER_TYPE", "jina")
CRAWL4AI_URL == Getenv("CRAWL4AI_URL", UNSET)

EnvNames == {"SEARCH_API", "CRAWLER_TYPE", "CRAWL4AI_URL", "SEARXNG_BASE_URL"}

\* What the environment may hold for each name.
EnvValues(name) ==
    CASE name = "CRAWLER_TYPE" -> {UNSET, "jina", "crawl4ai", "firecrawl"}
      [] name = "CRAWL4AI_URL" -> {UNSET, "", "http://crawl4ai/crawl"}
      [] name = "SEARCH_API" ->
            {UNSET, "", "tavily", "duckduckgo", "brave_search", "brave",
             "arxiv", "searxng", "google"}
      [] name = "SEARXNG_BASE_URL" -> {UNSET, "", "http://searxng/search"}

(***************************************************************************)
(* Provider answers                                                        *)
(***************************************************************************)

\* Entries of a `results` object or of an array response.
EntryWithContent(c) == JDict(<< <<"content", JStr(c)>> >>)
EntryNoContent == JDict(<< <<"title", JStr("t")>> >>)

\* The bodies the crawl backend answers with.
Bodies ==
    { RawBody("<html>page</html>"),
      RawBody(""),
      JsonBody(JDict(<< <<"content", JStr("top")>> >>)),
      JsonBody(JDict(<< <<"results", JDict(<< <<"u1", EntryWithContent("c1")>> >>)>>,
                        <<"content", JStr("both")>> >>)),
      JsonBody(JDict(<< <<"results", JDict(<< <<"u2", EntryNoContent>>,
                                               <<"u1", EntryWithContent("c1")>> >>)>> >>)),
      JsonBody(JDict(<< <<"results", JDict(<< <<"u3", EntryWithContent("c3")>> >>)>> >>)),
      JsonBody(JDict(<< <<"results", JDict(<< >>)>> >>)),
      JsonBody(JDict(<< <<"results", JList(<< EntryWithContent("c4") >>)>> >>)),
      JsonBody(JDict(<< <<"detail", JStr("unprocessable")>> >>)),
      JsonBody(JList(<< EntryWithContent("c5"), EntryNoContent >>)),
      JsonBody(JList(<< JStr("item") >>)),
      JsonBody(JList(<< >>)),
      JsonBody(JStr("scalar")) }

NoBody == RawBody("<no response>")

\* What one requests.post ends with: a raised RequestException (connection
\* refused, timeout, ...) or a response with a status and a body.
TransportError == [exc |-> TRUE, status |-> 0, body |-> NoBody]
Answer(status, body) == [exc |-> FALSE, status |-> status, body |-> body]
Outcomes == {TransportError} \cup {Answer(st, b) : st \in Statuses, b \in Bodies}

\* RaisesForStatus raising for server errors only.
RaisesForStatus_ServerErrorsOnly(status) == status >= 500 /\ status < 600

\* response.raise_for_status() raises HTTPError for 4xx and 5xx.
RaisesForStatus(status) == status >= 400 /\ status < 600

(***************************************************************************)
(* Crawl4aiClient.crawl (src/crawler/crawl4ai_client.py)                   *)
(***************************************************************************)

\* One HTTP request: where it goes, its headers and its JSON payload.
Request(target, headers, data) == [target |-> target, headers |-> headers, json |-> data]

\* headers of the primary request (lines 28-31).
Headers(return_format) ==
    ("Content-Type" :> "application/json") @@ ("X-Return-Format" :> return_format)

\* data of the primary request (lines 35-62); "urls" holds the one-element list [url].
Data(url, return_format) ==
    ("urls" :> url) @@ ("crawler_config" :> "CrawlerRunConfig") @@
    ("format" :> return_format) @@ ("options" :> "wait_for,timeout")

\* fallback_data (lines 83 and 146).
FallbackData(url) == ("urls" :> url)

\* fallback_headers of the except handler (line 147).
FallbackHeaders == ("Content-Type" :> "application/json")

\* ContentOrDumps serializing the entry even when it has a content field.
ContentOrDumps_AlwaysDumps(entry) == Dumps(entry)

\* `result["content"] if isinstance(result, dict) and "content" in result
\*  else json.dumps(result)` (lines 113-115, 120-122, 128-130 and their copies).
ContentOrDumps(entry) ==
    IF IsDict(entry) /\ HasKey(entry, "content") THEN Get(entry, "content")
    ELSE Dumps(entry)

\* NormalizePrimary answering the empty string for a body that is not JSON.
NormalizePrimary_EmptyForNonJson(body, url) ==
    IF ~body.json THEN JStr("")
    ELSE Dumps(body.v)

\* Normalization on the primary path (lines 98-137).  The error response.json()
\* raises for a body that is not JSON is a json.JSONDecodeError, caught at line 134.
NormalizePrimary(body, url) ==
    IF ~body.json THEN Text(body)
    ELSE LET json_response == body.v IN
        IF IsDict(json_response) THEN
            IF HasKey(json_response, "content") THEN Get(json_response, "content")
            ELSE IF HasKey(json_response, "results") /\ IsDict(Get(json_response, "results")) THEN
                LET results == Get(json_response, "results") IN
                IF HasKey(results, url) THEN ContentOrDumps(Get(results, url))
                ELSE IF Truthy(results) /\ Len(results.items) > 0
                     THEN ContentOrDumps(results.items[1][2])
                     ELSE Dumps(json_response)
            ELSE Dumps(json_response)
        ELSE IF IsList(json_response) /\ Len(json_response.items) > 0
             THEN ContentOrDumps(json_response.items[1])
             ELSE Dumps(json_response)

\* NormalizeFallback handing back the body text whatever it holds.
NormalizeFallback_TextOnly(body, url) == Text(body)

\* Normalization in the except handler (lines 151-180).
NormalizeFallback(body, url) ==
    IF ~body.json THEN Text(body)
    ELSE LET json_response == body.v IN
        IF IsDict(json_response) THEN
            IF HasKey(json_response, "content") THEN Get(json_response, "content")
            ELSE IF HasKey(json_response, "results") /\ IsDict(Get(json_response, "results")) THEN
                LET results == Get(json_response, "results") IN
                IF HasKey(results, url) THEN ContentOrDumps(Get(results, url))
                ELSE IF Truthy(results) /\ Len(results.items) > 0
                     THEN ContentOrDumps(results.items[1][2])
                     ELSE Dumps(json_response)
            ELSE Dumps(json_response)
        ELSE IF IsList(json_response) /\ Len(json_response.items) > 0
             THEN ContentOrDumps(json_response.items[1])
             ELSE Dumps(json_response)

\* How a call ends.
NoValue == [t |-> "none", v |-> ""]
Pending == [kind |-> "none", value |-> NoValue, type |-> "", carries |-> {}]
Returned(value) == [kind |-> "return", value |-> value, type |-> "", carries |-> {}]
\* A raised exception; `carries` are the requests whose failure the exception
\* holds, in its message or as its __context__.
Raised(type, carries) == [kind |-> "raise", value |-> NoValue, type |-> type, carries |-> carries]

\* `fallback_response.status_code == 200` (lines 85 and 149).
FallbackSucceeded(status) == status = HTTP_OK

\* `response.status_code == 422` (line 78).
IsUnprocessable(status) == status = HTTP_UNPROCESSABLE

\* ExceptRequestException with the retry left out: the caught failure is raised at once.
ExceptRequestException_NoFallback(idx) ==
    /\ caught' = idx
    /\ result' = Raised("RuntimeError", {idx})
    /\ pc' = "done"
    /\ UNCHANGED <<requests, response>>

\* The except handler up to its request (lines 139-148): the exception of
\* request number idx was caught, error_msg is built from it and the
\* fallback request is sent.
ExceptRequestException(idx) ==
    /\ caught' = idx
    /\ requests' = Append(requests, Request("crawl4ai", FallbackHeaders, FallbackData(crawl_url)))
    /\ pc' = "fallback_exc"
    /\ UNCHANGED <<response, result>>

\* The call ends: Crawler.crawl hands the html to the extractor, or the
\* exception propagates to the caller.
Finish(res) ==
    /\ result' = res
    /\ pc' = "done"
    /\ UNCHANGED requests

\* The primary request is answered (lines 71-137 and 139-148).
Crawl4aiPrimaryResponse(o) ==
    /\ pc = "primary"
    /\ responses' = Append(responses, o)
    /\ IF o.exc
       THEN ExceptRequestException(Len(requests))
       ELSE IF IsUnprocessable(o.status)
       THEN /\ requests' = Append(requests,
                   Request("crawl4ai", Headers("html"), FallbackData(crawl_url)))
            /\ pc' = "fallback_422"
            /\ response' = Len(requests)
            /\ UNCHANGED <<caught, result>>
       ELSE IF RaisesForStatus(o.status)
       THEN ExceptRequestException(Len(requests))
       ELSE /\ Finish(Returned(NormalizePrimary(o.body, crawl_url)))
            /\ response' = Len(requests)
            /\ UNCHANGED caught
    /\ UNCHANGED <<environ, calls, crawl_output, crawl_url, client, search_vars>>

\* Crawl4aiFallback422Response without `response = fallback_response` (line 87):
\* raise_for_status then sees the 422 response and its HTTPError is caught.
Crawl4aiFallback422Response_NoReassign(o) ==
    /\ pc = "fallback_422"
    /\ responses' = Append(responses, o)
    /\ IF o.exc
       THEN ExceptRequestException(Len(requests))
       ELSE IF FallbackSucceeded(o.status)
       THEN ExceptRequestException(response)
       ELSE /\ Finish(Raised("RuntimeError", {response}))
            /\ UNCHANGED <<response, caught>>
    /\ UNCHANGED <<environ, calls, crawl_output, crawl_url, client, search_vars>>

\* The fallback request sent after a 422 is answered (lines 84-137 and 139-148).
Crawl4aiFallback422Response(o) ==
    /\ pc = "fallback_422"
    /\ responses' = Append(responses, o)
    /\ IF o.exc
       THEN ExceptRequestException(Len(requests))
       ELSE IF FallbackSucceeded(o.status)
       THEN /\ Finish(Returned(NormalizePrimary(o.body, crawl_url)))
            /\ response' = Len(requests)
            /\ UNCHANGED caught
       ELSE /\ Finish(Raised("RuntimeError", {response}))
            /\ UNCHANGED <<response, caught>>
    /\ UNCHANGED <<environ, calls, crawl_output, crawl_url, client, search_vars>>

\* The fallback request sent by the except handler is answered (lines 148-186).
Crawl4aiFallbackExcResponse(o) ==
    /\ pc = "fallback_exc"
    /\ responses' = Append(responses, o)
    /\ IF ~o.exc /\ FallbackSucceeded(o.status)
       THEN Finish(Returned(NormalizeFallback(o.body, crawl_url)))
       ELSE Finish(Raised("RuntimeError", {caught}))
    /\ UNCHANGED <<environ, calls, crawl_output, crawl_url, client, response, caught, search_vars>>

(***************************************************************************)
(* Crawler.crawl (src/crawler/crawler.py) and the Jina client              *)
(***************************************************************************)

\* SelectClient taking every identifier other than jina for crawl4ai.
SelectClient_AnyNonJina(crawler_type, crawl4ai_url) ==
    IF crawler_type # "jina"
    THEN IF Falsy(crawl4ai_url) THEN "jina" ELSE "crawl4ai"
    ELSE "jina"

\* SelectClient without the check of CRAWL4AI_URL.
SelectClient_NoUrlCheck(crawler_type, crawl4ai_url) ==
    IF crawler_type = "crawl4ai" THEN "crawl4ai" ELSE "jina"

\* The client Crawler.crawl selects (lines 25-35).
SelectClient(crawler_type, crawl4ai_url) ==
    IF crawler_type = "crawl4ai"
    THEN IF Falsy(crawl4ai_url) THEN "jina" ELSE "crawl4ai"
    ELSE "jina"

\* The one request of JinaClient.crawl.
JinaRequest(url, return_format) ==
    Request("jina", Headers(return_format), ("url" :> url))

\* Crawler.crawl(url) up to the first request of the selected client
\* (crawler.py lines 19-38, crawl4ai_client.py lines 16-71).
CrawlerCrawl(url) ==
    /\ pc = "idle"
    /\ crawl_url' = url
    /\ client' = SelectClient(CRAWLER_TYPE, CRAWL4AI_URL)
    /\ IF client' = "crawl4ai"
       THEN /\ requests' = <<Request("crawl4ai", Headers("html"), Data(url, "html"))>>
            /\ pc' = "primary"
       ELSE /\ requests' = <<JinaRequest(url, "html")>>
            /\ pc' = "jina"
    /\ UNCHANGED <<environ, calls, crawl_output, responses, response, caught, result, search_vars>>

\* The request of JinaClient.crawl is answered: the text of the response is
\* returned whatever its status; a transport failure propagates.
JinaResponse(o) ==
    /\ pc = "jina"
    /\ responses' = Append(responses, o)
    /\ IF o.exc
       THEN Finish(Raised("RequestException", {Len(requests)}))
       ELSE Finish(Returned(Text(o.body)))
    /\ UNCHANGED <<environ, calls, crawl_output, crawl_url, client, response, caught, search_vars>>

(***************************************************************************)
(* crawl_tool (src/tools/crawl.py)                                         *)
(***************************************************************************)

\* f"Failed to crawl. Error: {repr(e)}" (line 35).
ErrorMsg(e) == [t |-> "error_msg", prefix |-> "Failed to crawl. Error: ", repr |-> e]

\* The markdown text of the article extracted from html.
Markdown(html) == [t |-> "markdown", of |-> html]

\* Whether extract_article and to_markdown get through the html, or one of
\* them raises.
Conversions == {"converted", "raised"}

\* CrawlToolOutput with no except clause: an exception leaves crawl_tool.
CrawlToolOutput_NoCatch(res, conversion) ==
    IF res.kind = "raise" THEN res
    ELSE IF conversion = "raised" THEN Raised("Exception", {})
    ELSE Returned(Markdown(res.value))

\* What crawl_tool returns (lines 21-37) once client.crawl has ended with res:
\* the markdown, or the message built from whatever was raised.
CrawlToolOutput(res, conversion) ==
    IF res.kind = "raise" THEN Returned(ErrorMsg(res.type))
    ELSE IF conversion = "raised" THEN Returned(ErrorMsg("Exception"))
    ELSE Returned(Markdown(res.value))

\* The rest of Crawler.crawl (crawler.py lines 41-44) and of crawl_tool
\* (lines 28-37) after client.crawl has ended.
CrawlToolReturn(conversion) ==
    /\ pc = "done"
    /\ crawl_output = Pending
    /\ crawl_output' = CrawlToolOutput(result, conversion)
    /\ UNCHANGED <<environ, calls, pc, crawl_url, client, requests, responses, response,
                   caught, result, search_vars>>

(***************************************************************************)
(* get_web_search_tool (src/tools/search.py)                               *)
(***************************************************************************)

\* The values of the enum SearchEngine (src/config/tools.py lines 12-17).
SearchEngine ==
    [TAVILY |-> "tavily", DUCKDUCKGO |-> "duckduckgo", BRAVE_SEARCH |-> "brave_search",
     ARXIV |-> "arxiv", SEARXNG |-> "searxng"]

SearchEngineValues == {SearchEngine[k] : k \in DOMAIN SearchEngine}

SELECTED_SEARCH_ENGINE == Getenv("SEARCH_API", SearchEngine.TAVILY)

\* The tool classes.
TavilyTool == "TavilySearchResultsWithImages"
DuckDuckGoTool == "EnhancedDuckDuckGoSearchResults"
BraveTool == "EnhancedBraveSearch"
ArxivTool == "EnhancedArxivQueryRun"
SearxNGTool == "SearxNGSearchTool"
Unsupported == "<unsupported>"

\* ToolFor with a default provider in place of the final else.
ToolFor_DefaultTavily(engine) ==
    IF engine = SearchEngine.TAVILY THEN TavilyTool
    ELSE IF engine = SearchEngine.DUCKDUCKGO THEN DuckDuckGoTool
    ELSE IF engine = SearchEngine.BRAVE_SEARCH THEN BraveTool
    ELSE IF engine = SearchEngine.ARXIV THEN ArxivTool
    ELSE IF engine = SearchEngine.SEARXNG THEN SearxNGTool
    ELSE TavilyTool

\* ToolFor with the bodies of two branches exchanged.
ToolFor_Swapped(engine) ==
    IF engine = SearchEngine.TAVILY THEN TavilyTool
    ELSE IF engine = SearchEngine.DUCKDUCKGO THEN BraveTool
    ELSE IF engine = SearchEngine.BRAVE_SEARCH THEN DuckDuckGoTool
    ELSE IF engine = SearchEngine.ARXIV THEN ArxivTool
    ELSE IF engine = SearchEngine.SEARXNG THEN SearxNGTool
    ELSE Unsupported

\* The branch the if/elif chain of get_web_search_tool takes (lines 38-72).
ToolFor(engine) ==
    IF engine = SearchEngine.TAVILY THEN TavilyTool
    ELSE IF engine = SearchEngine.DUCKDUCKGO THEN DuckDuckGoTool
    ELSE IF engine = SearchEngine.BRAVE_SEARCH THEN BraveTool
    ELSE IF engine = SearchEngine.ARXIV THEN ArxivTool
    ELSE IF engine = SearchEngine.SEARXNG THEN SearxNGTool
    ELSE Unsupported

\* The tool object each branch builds.
NewTool(kind, max_search_results) ==
    CASE kind = TavilyTool ->
            [kind |-> kind, name |-> "web_search", max_results |-> max_search_results,
             include_raw_content |-> TRUE, include_images |-> TRUE,
             include_image_descriptions |-> TRUE]
      [] kind = DuckDuckGoTool ->
            [kind |-> kind, name |-> "web_search", num_results |-> max_search_results]
      [] kind = BraveTool ->
            [kind |-> kind, name |-> "web_search", count |-> max_search_results]
      [] kind = ArxivTool ->
            [kind |-> kind, name |-> "web_search", top_k_results |-> max_search_results,
             load_max_docs |-> max_search_results, load_all_available_meta |-> TRUE]
      [] kind = SearxNGTool ->
            [kind |-> kind, name |-> "web_search",
             searxng_base_url |-> Getenv("SEARXNG_BASE_URL", "")]

\* get_searxng_search_tool raises ValueError when SEARXNG_BASE_URL is not set
\* (enhanced_searxng_search.py lines 123-126).
SearxNGUnconfigured == Falsy(Getenv("SEARXNG_BASE_URL", ""))

\* get_web_search_tool(max_search_results): returns the tool or raises ValueError.
GetWebSearchTool(max_search_results) ==
    /\ spc = "idle"
    /\ LET kind == ToolFor(SELECTED_SEARCH_ENGINE) IN
       IF kind = Unsupported \/ (kind = SearxNGTool /\ SearxNGUnconfigured)
       THEN /\ search_result' = Raised("ValueError", {})
            /\ spc' = "done"
            /\ UNCHANGED tool
       ELSE /\ tool' = NewTool(kind, max_search_results)
            /\ spc' = "ready"
            /\ UNCHANGED search_result
    /\ UNCHANGED <<environ, calls, call_args, search_requests, replay_vars, crawl_vars>>

(***************************************************************************)
(* The Tavily tool (src/tools/tavily_search)                               *)
(***************************************************************************)

\* Longest `results` list and longest `images` list of a Tavily response.
MaxResults == 2
MaxImages == 2

\* Sequences over S of length at most n.
SeqsUpTo(S, n) == UNION {[1..k -> S] : k \in 0..n}

\* Records of the `results` list of a Tavily response.
TavilyPages ==
    { JDict(<< <<"title", JStr("T1")>>, <<"url", JStr("http://p1")>>,
               <<"content", JStr("C1")>>, <<"score", JStr("0.9")>> >>),
      JDict(<< <<"title", JStr("T2")>>, <<"url", JStr("http://p2")>>,
               <<"content", JStr("C2")>>, <<"score", JStr("0.5")>>,
               <<"raw_content", JStr("RAW2")>> >>),
      JDict(<< <<"url", JStr("http://p3")>>, <<"content", JStr("C3")>> >>) }

\* Entries of the `images` list: an object with url and description, a bare
\* url string (what Tavily sends without image descriptions), an object
\* without description.
TavilyImages ==
    { JDict(<< <<"url", JStr("http://i1")>>, <<"description", JStr("D1")>> >>),
      JStr("http://i2"),
      JDict(<< <<"url", JStr("http://i3")>> >>) }

\* The JSON objects the Tavily API answers with.
TavilyRawResults ==
    LET resultsPart == {<<>>} \cup
            {<< <<"results", JList(r)>> >> : r \in SeqsUpTo(TavilyPages, MaxResults)}
        imagesPart == {<<>>} \cup
            {<< <<"images", JList(im)>> >> : im \in SeqsUpTo(TavilyImages, MaxImages)}
    IN {JDict(r \o im) : r \in resultsPart, im \in imagesPart}

\* What api_wrapper.raw_results ends with: an exception (transport failure,
\* HTTP error status, invalid JSON) or the parsed response.
TavilyFailure == [exc |-> TRUE, raw |-> JDict(<< >>)]
TavilyOutcomes == {TavilyFailure} \cup {[exc |-> FALSE, raw |-> r] : r \in TavilyRawResults}

\* The exception item[k] raises for the keys read from it, "" when none.
ItemError(item, keys) ==
    IF ~IsDict(item) THEN "TypeError"
    ELSE IF \E k \in keys : ~HasKey(item, k) THEN "KeyError"
    ELSE ""

\* One page record (tavily_search_api_wrapper.py lines 144-153).
CleanPage(page) ==
    IF HasKey(page, "raw_content") /\ Truthy(Get(page, "raw_content"))
    THEN [type |-> "page", title |-> Get(page, "title"), url |-> Get(page, "url"),
          content |-> Get(page, "content"), score |-> Get(page, "score"),
          raw_content |-> Get(page, "raw_content")]
    ELSE [type |-> "page", title |-> Get(page, "title"), url |-> Get(page, "url"),
          content |-> Get(page, "content"), score |-> Get(page, "score")]

\* One image record (lines 160-165).
CleanImage(image) ==
    [type |-> "image", image_url |-> Get(image, "url"),
     image_description |-> Get(image, "description")]

\* The value a tool call returns: the content and the artifact.
ToolOutput(t, items, artifact) == [t |-> t, items |-> items, artifact |-> artifact]

\* EnhancedTavilySearchAPIWrapper.clean_results_with_images (lines 126-172):
\* the cleaned list, or the exception a missing key or a non-object raises.
clean_results_with_images(raw_results) ==
    IF ~HasKey(raw_results, "results") THEN Raised("KeyError", {})
    ELSE
    LET results == Get(raw_results, "results").items
        images == IF HasKey(raw_results, "images") THEN Get(raw_results, "images")
                  ELSE JList(<< >>)
        pageKeys == {"title", "url", "content", "score"}
        imageKeys == {"url", "description"}
        badPages == {i \in 1..Len(results) : ItemError(results[i], pageKeys) # ""}
        badImages == {i \in 1..Len(images.items) : ItemError(images.items[i], imageKeys) # ""}
        firstOf(S) == CHOOSE i \in S : \A j \in S : i <= j
        pages == [i \in 1..Len(results) |-> CleanPage(results[i])]
        imgs == [i \in 1..Len(images.items) |-> CleanImage(images.items[i])]
    IN  IF badPages # {}
        THEN Raised(ItemError(results[firstOf(badPages)], pageKeys), {})
        ELSE IF Truthy(images)
        THEN IF badImages # {}
             THEN Raised(ItemError(images.items[firstOf(badImages)], imageKeys), {})
             ELSE Returned(ToolOutput("results", pages \o imgs, raw_results))
        ELSE Returned(ToolOutput("results", pages, raw_results))

\* TavilySearchResultsWithImages(...) built by a caller with its own flags
\* (the class and its fields, tavily_search_results_with_images.py lines 16-99).
NewTavilySearchResultsWithImages(max_results, include_images, include_image_descriptions) ==
    /\ spc = "idle"
    /\ tool' = [kind |-> TavilyTool, name |-> "tavily_search_results_json",
                max_results |-> max_results, include_raw_content |-> FALSE,
                include_images |-> include_images,
                include_image_descriptions |-> include_image_descriptions]
    /\ spc' = "ready"
    /\ UNCHANGED <<environ, calls, call_args, search_requests, search_result, replay_vars, crawl_vars>>

\* The request of raw_results (tavily_search_api_wrapper.py lines 32-52).
TavilyRequest(query, t) ==
    [target |-> "tavily",
     json |-> [query |-> query, max_results |-> t.max_results,
               include_raw_content |-> t.include_raw_content,
               include_images |-> t.include_images,
               include_image_descriptions |-> t.include_image_descriptions]]

\* _run up to the request to the Tavily API (lines 101-128).
TavilyRun(query) ==
    /\ spc = "ready"
    /\ tool.kind = TavilyTool
    /\ search_requests' = Append(search_requests, TavilyRequest(query, tool))
    /\ spc' = "tavily"
    /\ UNCHANGED <<environ, calls, call_args, tool, search_result, replay_vars, crawl_vars>>

\* The Tavily API answers; the rest of _run (lines 128-149).
TavilyResponse(o) ==
    /\ spc = "tavily"
    /\ search_result' =
          IF o.exc THEN Returned(ToolOutput("repr(e)", << >>, JDict(<< >>)))
          ELSE clean_results_with_images(o.raw)
    /\ spc' = "done"
    /\ UNCHANGED <<environ, calls, call_args, tool, search_requests, replay_vars, crawl_vars>>

\* The two calls that run concurrently.
CallIds == {1, 2}

\* The frame of a call that has not started.
IdleCall ==
    [kind |-> "none", pc |-> "idle", arg |-> "", client |-> "none", requests |-> << >>,
     responses |-> << >>, response |-> 0, caught |-> 0, result |-> Pending]

\* No concurrent call has started.
CallsIdle == calls = [id \in CallIds |-> IdleCall]

\* No wrapper method or helper has been called directly.
NoCall == [op |-> "none"]

\* The search side before any search call.
SearchIdle ==
    /\ spc = "idle"
    /\ tool = [kind |-> "none"]
    /\ search_requests = <<>>
    /\ search_result = Pending
    /\ search_responses = <<>>
    /\ async_result = Pending
    /\ call_args = NoCall

\* The crawl side before any crawl call.
CrawlIdle ==
    /\ pc = "idle"
    /\ crawl_url = ""
    /\ client = "none"
    /\ requests = <<>>
    /\ responses = <<>>
    /\ response = 0
    /\ caught = 0
    /\ result = Pending
    /\ crawl_output = Pending

\* The names the crawl side reads from the environment.
CrawlEnvNames == {"CRAWLER_TYPE", "CRAWL4AI_URL"}

Init ==
    /\ environ \in [EnvNames -> UNION {EnvValues(n) : n \in EnvNames}]
    /\ \A n \in EnvNames :
          IF n \in CrawlEnvNames THEN environ[n] \in EnvValues(n) ELSE environ[n] = UNSET
    /\ CrawlIdle
    /\ SearchIdle
    /\ CallsIdle

Next ==
    \/ \E url \in Urls : CrawlerCrawl(url)
    \/ \E o \in Outcomes : JinaResponse(o)
    \/ \E o \in Outcomes : Crawl4aiPrimaryResponse(o)
    \/ \E o \in Outcomes : Crawl4aiFallback422Response(o)
    \/ \E o \in Outcomes : Crawl4aiFallbackExcResponse(o)
    \/ \E c \in Conversions : CrawlToolReturn(c)

Spec == Init /\ [][Next]_vars


\* The names the search side reads from the environment.
SearchEnvNames == {"SEARCH_API", "SEARXNG_BASE_URL"}

\* The arguments callers pass.
Queries == {"cute panda"}
MaxSearchResultsArgs == {3, 5}

InitSearch ==
    /\ environ \in [EnvNames -> UNION {EnvValues(n) : n \in EnvNames}]
    /\ \A n \in EnvNames :
          IF n \in SearchEnvNames THEN environ[n] \in EnvValues(n) ELSE environ[n] = UNSET
    /\ CrawlIdle
    /\ SearchIdle
    /\ CallsIdle

NextSearch ==
    \/ \E m \in MaxSearchResultsArgs : GetWebSearchTool(m)
    \/ \E m \in MaxSearchResultsArgs, ii, id \in BOOLEAN :
          NewTavilySearchResultsWithImages(m, ii, id)
    \/ \E q \in Queries : TavilyRun(q)
    \/ \E o \in TavilyOutcomes : TavilyResponse(o)

SpecSearch == InitSearch /\ [][NextSearch]_vars

(***************************************************************************)
(* The Tavily API at the HTTP level, blocking and asynchronous             *)
(***************************************************************************)

\* Status codes of the search providers' answers.
SearchStatuses == {HTTP_OK, 201, 404, 500}

\* Bodies of the Tavily API's answers.
TavilyBodies == {RawBody("<html>")} \cup {JsonBody(r) : r \in TavilyRawResults}

\* What the HTTP exchange with the Tavily API ends with.
TavilyHttpOutcomes ==
    {TransportError} \cup {Answer(st, b) : st \in SearchStatuses, b \in TavilyBodies}

\* What raw_results and raw_results_async end with: the exception raised, or
\* the parsed response.
ApiFailure(error) == [exc |-> TRUE, error |-> error, raw |-> JDict(<< >>)]
ApiParsed(raw) == [exc |-> FALSE, error |-> "", raw |-> raw]

\* EnhancedTavilySearchAPIWrapper.raw_results (lines 47-61): requests.post,
\* raise_for_status, response.json().
raw_results(h) ==
    IF h.exc THEN ApiFailure("requests.ConnectionError")
    ELSE IF RaisesForStatus(h.status) THEN ApiFailure("requests.HTTPError")
    ELSE IF ~h.body.json THEN ApiFailure("requests.JSONDecodeError")
    ELSE ApiParsed(h.body.v)

\* EnhancedTavilySearchAPIWrapper.raw_results_async (lines 82-124): the body
\* is read only when res.status == 200, any other status raises Exception.
raw_results_async(h) ==
    IF h.exc THEN ApiFailure("aiohttp.ClientError")
    ELSE IF h.status # HTTP_OK THEN ApiFailure("Exception")
    ELSE IF ~h.body.json THEN ApiFailure("json.JSONDecodeError")
    ELSE ApiParsed(h.body.v)

\* `return repr(e), {}` (tavily_search_results_with_images.py lines 138-140 and 187-189).
ErrorOutput(error) ==
    ToolOutput("repr(e)", << [type |-> "error", repr |-> error] >>, JDict(<< >>))

\* _run and _arun after the API call (lines 138-149 and 187-198).
TavilyFinish(r) ==
    IF r.exc THEN Returned(ErrorOutput(r.error))
    ELSE clean_results_with_images(r.raw)

\* The Tavily API answers the request of _run; the rest of _run (lines 118-149).
TavilyHttpResponse(h) ==
    /\ spc = "tavily"
    /\ search_responses' = Append(search_responses, h)
    /\ search_result' = TavilyFinish(raw_results(h))
    /\ spc' = "done"
    /\ UNCHANGED <<environ, calls, call_args, tool, search_requests, async_result, crawl_vars>>

\* _arun of the same tool with the same query, answered as _run was (lines 151-198).
TavilyArun ==
    /\ spc = "done"
    /\ tool.kind = TavilyTool
    /\ async_result = Pending
    /\ search_responses # << >>
    /\ search_requests' = Append(search_requests,
                                 TavilyRequest(search_requests[1].json.query, tool))
    /\ async_result' = TavilyFinish(raw_results_async(search_responses[1]))
    /\ UNCHANGED <<environ, calls, call_args, tool, spc, search_result, search_responses, crawl_vars>>

(***************************************************************************)
(* The DuckDuckGo tool (src/tools/duckduckgo_search)                       *)
(***************************************************************************)

\* getattr(self, field, default)
Field(t, field, default) == IF field \in DOMAIN t THEN t[field] ELSE default

\* The elements of a sequence.
Range(seq) == {seq[i] : i \in 1..Len(seq)}

\* keys_to_include: None, or a list of keys.
KeysNone == [none |-> TRUE, keys |-> << >>]
KeysList(keys) == [none |-> FALSE, keys |-> keys]

\* `not keys_to_include`
NoKeyRestriction(keys_to_include) == keys_to_include.none \/ Len(keys_to_include.keys) = 0

\* Records the DuckDuckGo backend answers with.
DuckDuckGoRecords ==
    { JDict(<< <<"title", JStr("Panda")>>, <<"href", JStr("https://x.com")>>,
               <<"body", JStr("desc")>> >>),
      JDict(<< <<"snippet", JStr("s2")>>, <<"title", JStr("T2")>>,
               <<"link", JStr("https://y.com")>> >>) }

\* What api_wrapper.results ends with: an exception, or the list of records.
ListFailure == [exc |-> TRUE, list |-> << >>]
ListAnswer(records) == [exc |-> FALSE, list |-> records]
DuckDuckGoOutcomes ==
    {ListFailure} \cup {ListAnswer(r) : r \in SeqsUpTo(DuckDuckGoRecords, MaxResults)}

\* FilterRecord keeping an entry only when its key is listed.
FilterRecord_AlwaysRestrict(d, keys_to_include) ==
    JDict(SelectSeq(d.items, LAMBDA it : it[1] \in Range(keys_to_include.keys)))

\* {k: v for k, v in d.items() if not keys_to_include or k in keys_to_include}
\* (enhanced_duckduckgo_search.py lines 56-61).
FilterRecord(d, keys_to_include) ==
    JDict(SelectSeq(d.items, LAMBDA it :
        NoKeyRestriction(keys_to_include) \/ it[1] \in Range(keys_to_include.keys)))

\* ", ".join(f"{k}: {v}" ...) of each record, joined by results_separator (lines 73-74).
JoinedString(results, results_separator) ==
    [t |-> "joined", sep |-> results_separator, v |-> results]

\* The processing of the raw results (lines 52-84).
DuckDuckGoProcess(t, raw) ==
    LET keys_to_include == Field(t, "keys_to_include", KeysNone)
        results == [i \in 1..Len(raw) |-> FilterRecord(raw[i], keys_to_include)]
        output_format == Field(t, "output_format", "string")
        results_separator == Field(t, "results_separator", ", ")
    IN  IF output_format = "list"
        THEN Returned(ToolOutput("list", results, JList(raw)))
        ELSE IF output_format = "json"
        THEN Returned(ToolOutput("json", << Dumps(JList(results)) >>, JList(raw)))
        ELSE IF output_format = "string"
        THEN Returned(ToolOutput("string", << JoinedString(results, results_separator) >>,
                                 JList(raw)))
        ELSE Raised("ValueError", {})

\* The output_format values and the keys_to_include values callers build the tool with.
OutputFormats == {"list", "json", "string", "xml"}
KeysToInclude == {KeysNone, KeysList(<< >>), KeysList(<<"title">>),
                  KeysList(<<"title", "href", "missing">>)}

\* EnhancedDuckDuckGoSearchResults(...) built by a caller (search.py lines 78-80).
NewDuckDuckGoSearchResults(num_results, output_format, keys_to_include) ==
    /\ spc = "idle"
    /\ tool' = [kind |-> DuckDuckGoTool, name |-> "duckduckgo_results_json",
                num_results |-> num_results, output_format |-> output_format,
                keys_to_include |-> keys_to_include]
    /\ spc' = "ready"
    /\ UNCHANGED <<environ, calls, call_args, search_requests, search_result, replay_vars, crawl_vars>>

\* _run up to the call of the DuckDuckGo backend (lines 24-42); max_results is
\* the field the constructor fills from num_results.
DuckDuckGoRun(query) ==
    /\ spc = "ready"
    /\ tool.kind = DuckDuckGoTool
    /\ search_requests' = Append(search_requests,
          [target |-> "duckduckgo",
           json |-> [query |-> query, max_results |-> Field(tool, "num_results", 10),
                     source |-> Field(tool, "backend", "text")]])
    /\ spc' = "duckduckgo"
    /\ UNCHANGED <<environ, calls, call_args, tool, search_result, replay_vars, crawl_vars>>

\* The backend answers; the rest of _run (lines 44-88): an exception of the
\* backend or of the processing is logged and raised again.
DuckDuckGoResponse(o) ==
    /\ spc = "duckduckgo"
    /\ search_responses' = Append(search_responses, o)
    /\ search_result' =
          IF o.exc THEN Raised("Exception", {Len(search_requests)})
          ELSE DuckDuckGoProcess(tool, o.list)
    /\ spc' = "done"
    /\ UNCHANGED <<environ, calls, call_args, tool, search_requests, async_result, crawl_vars>>

(***************************************************************************)
(* The Brave tool (src/tools/brave_search)                                 *)
(***************************************************************************)

\* d.get(key, "")
GetOr(d, key, default) == IF HasKey(d, key) THEN Get(d, key) ELSE JStr(default)

\* A tool result that is the content alone, with no artifact.
NoArtifact == [t |-> "none", items |-> << >>]

\* Records the Brave wrapper answers with.
BraveRecords ==
    { JDict(<< <<"title", JStr("B1")>>, <<"url", JStr("http://b1")>>,
               <<"description", JStr("about b1")>> >>),
      JDict(<< <<"title", JStr("B2")>>, <<"url", JStr("http://b2")>>,
               <<"description", JStr("about b2")>>, <<"age", JStr("1d")>> >>),
      JDict(<< <<"url", JStr("http://b3")>> >>) }

\* What search_wrapper.run ends with: an exception, or the list of records.
BraveOutcomes ==
    {ListFailure} \cup {ListAnswer(r) : r \in SeqsUpTo(BraveRecords, MaxResults)}

\* BraveProcessed taking the snippet from the title.
BraveProcessed_SnippetFromTitle(rec) ==
    JDict(<< <<"title", GetOr(rec, "title", "")>>,
             <<"link", GetOr(rec, "url", "")>>,
             <<"snippet", GetOr(rec, "title", "")>> >>)

\* One processed record (enhanced_brave_search.py lines 96-100).
BraveProcessed(rec) ==
    JDict(<< <<"title", GetOr(rec, "title", "")>>,
             <<"link", GetOr(rec, "url", "")>>,
             <<"snippet", GetOr(rec, "description", "")>> >>)

\* BraveProcess walking the records from the last to the first.
BraveProcess_Reversed(results) ==
    [i \in 1..Len(results) |-> BraveProcessed(results[Len(results) + 1 - i])]

\* processed_results (lines 94-100).
BraveProcess(results) == [i \in 1..Len(results) |-> BraveProcessed(results[i])]

\* count of EnhancedBraveSearchWrapper.run: None, or a number.
NoCount == [none |-> TRUE, n |-> 0]
Count(n) == [none |-> FALSE, n |-> n]

\* actual_count (lines 24-26), which run only logs (line 29).
ActualCount(t, count) == IF ~count.none THEN count.n ELSE Field(t, "count", 10)

\* The request of the underlying wrapper: the query with the wrapper's own
\* search_kwargs.
BraveRequest(t, query) ==
    IF "count" \in DOMAIN t THEN [query |-> query, count |-> t.count] ELSE [query |-> query]

\* SuperRun passing count on to the underlying run.
SuperRun_CountForwarded(t, query, count, kwargs) ==
    [target |-> "brave", json |-> BraveRequest(t, query),
     kwargs |-> JDict(kwargs.items \o << <<"count", JStr("count")>> >>),
     logged_count |-> ActualCount(t, count)]

\* super().run(query, **kwargs) (line 38): count is not passed on.
SuperRun(t, query, count, kwargs) ==
    [target |-> "brave", json |-> BraveRequest(t, query), kwargs |-> kwargs,
     logged_count |-> ActualCount(t, count)]

\* The count _run passes to the wrapper: getattr(self, 'k', 10) (line 78).
PassedCount(t) == Field(t, "k", 10)

\* _run up to the call of the Brave wrapper (lines 62-78), and the wrapper's
\* run up to the underlying run (lines 19-38).
BraveRun(query) ==
    /\ spc = "ready"
    /\ tool.kind = BraveTool
    /\ search_requests' = Append(search_requests,
          SuperRun(tool, query, Count(PassedCount(tool)), JDict(<< >>)))
    /\ spc' = "brave"
    /\ UNCHANGED <<environ, calls, call_args, tool, search_result, replay_vars, crawl_vars>>

\* The wrapper answers; the rest of _run (lines 83-109): an exception is
\* logged and raised again.
BraveResponse(o) ==
    /\ spc = "brave"
    /\ search_responses' = Append(search_responses, o)
    /\ search_result' =
          IF o.exc THEN Raised("Exception", {Len(search_requests)})
          ELSE Returned(ToolOutput("list", BraveProcess(o.list), NoArtifact))
    /\ spc' = "done"
    /\ UNCHANGED <<environ, calls, call_args, tool, search_requests, async_result, crawl_vars>>

(***************************************************************************)
(* The SearxNG wrapper and tool (src/tools/searxng_search)                 *)
(***************************************************************************)

\* The items of d whose key is not in keys.
ItemsExcept(d, keys) == SelectSeq(d.items, LAMBDA it : it[1] \notin keys)

\* d.update(e): keys of d keep their place and take e's value, new keys follow.
Update(d, e) ==
    JDict([i \in 1..Len(d.items) |->
              IF HasKey(e, d.items[i][1]) THEN <<d.items[i][1], Get(e, d.items[i][1])>>
              ELSE d.items[i]]
          \o SelectSeq(e.items, LAMBDA it : ~HasKey(d, it[1])))

\* str(value)
Str(j) == IF j.t = "str" THEN j ELSE JStr("str(value)")

\* FilteredKwargs passing every keyword argument on.
FilteredKwargs_KeepAll(kwargs) == kwargs

\* filtered_kwargs of LoggedToolMixin._run (decorators.py line 71): the keyword
\* arguments without the key args.
FilteredKwargs(kwargs) == JDict(ItemsExcept(kwargs, {"args"}))

\* What _extract_query_and_kwargs ends with: a ValueError, or query and kwargs.
ExtractionError == [exc |-> TRUE, query |-> JStr(""), kwargs |-> JDict(<< >>)]
Extracted(query, kwargs) == [exc |-> FALSE, query |-> query, kwargs |-> kwargs]

\* ExtractQueryAndKwargs without the final check of an empty query.
ExtractQueryAndKwargs_NoEmptyCheck(tool_kwargs) ==
    LET hasArgs == HasKey(tool_kwargs, "args")
        tool_args == IF hasArgs THEN Get(tool_kwargs, "args") ELSE JStr("")
        argsIsDict == hasArgs /\ IsDict(tool_args)
        argsIsList == hasArgs /\ IsList(tool_args) /\ Truthy(tool_args)
    IN  IF argsIsDict
        THEN IF HasKey(tool_args, "query")
             THEN Extracted(Str(Get(tool_args, "query")), JDict(<< >>))
             ELSE ExtractionError
        ELSE IF argsIsList THEN Extracted(Str(tool_args.items[1]), JDict(<< >>))
        ELSE IF HasKey(tool_kwargs, "query")
        THEN Extracted(Str(Get(tool_kwargs, "query")), JDict(<< >>))
        ELSE ExtractionError

\* _extract_query_and_kwargs (lines 136-198).
ExtractQueryAndKwargs(tool_kwargs) ==
    LET hasArgs == HasKey(tool_kwargs, "args")
        tool_args == IF hasArgs THEN Get(tool_kwargs, "args") ELSE JStr("")
        argsIsDict == hasArgs /\ IsDict(tool_args)
        argsIsList == hasArgs /\ IsList(tool_args) /\ Truthy(tool_args)
        tool_direct_kwargs == IF HasKey(tool_kwargs, "kwargs") THEN Get(tool_kwargs, "kwargs")
                              ELSE JDict(<< >>)
        fromArgs == IF argsIsDict THEN JDict(ItemsExcept(tool_args, {"query"}))
                    ELSE IF HasKey(tool_kwargs, "query")
                    THEN JDict(ItemsExcept(tool_kwargs, {"query", "args", "kwargs"}))
                    ELSE JDict(<< >>)
        extracted_api_kwargs == IF IsDict(tool_direct_kwargs)
                                THEN Update(fromArgs, tool_direct_kwargs)
                                ELSE fromArgs
        found(query_str) == IF Truthy(query_str) THEN Extracted(query_str, extracted_api_kwargs)
                            ELSE ExtractionError
    IN  IF argsIsDict
        THEN IF HasKey(tool_args, "query") THEN found(Str(Get(tool_args, "query")))
             ELSE ExtractionError
        ELSE IF argsIsList THEN found(Str(tool_args.items[1]))
        ELSE IF HasKey(tool_kwargs, "query") THEN found(Str(Get(tool_kwargs, "query")))
        ELSE ExtractionError

\* Records of the `results` list of a SearxNG response.
SearxNGRecords ==
    { JDict(<< <<"title", JStr("S1")>>, <<"url", JStr("http://s1")>>,
               <<"content", JStr("text s1")>> >>),
      JDict(<< <<"url", JStr("http://s2")>>, <<"title", JStr("S2")>>,
               <<"content", JStr("text s2")>>, <<"engine", JStr("bing")>> >>),
      JDict(<< <<"url", JStr("http://s3")>> >>) }

\* Bodies of the SearxNG instance's answers.
SearxNGBodies ==
    {RawBody("<html>"), JsonBody(JDict(<< <<"query", JStr("cute panda")>> >>))}
    \cup {JsonBody(JDict(<< <<"results", JList(r)>> >>)) :
             r \in SeqsUpTo(SearxNGRecords, MaxResults)}

\* What requests.get ends with.
SearxNGOutcomes ==
    {TransportError} \cup {Answer(st, b) : st \in SearchStatuses, b \in SearxNGBodies}

\* One processed record (lines 84-88).
SearxNGProcessed(rec) ==
    JDict(<< <<"title", GetOr(rec, "title", "")>>,
             <<"link", GetOr(rec, "url", "")>>,
             <<"snippet", GetOr(rec, "content", "")>> >>)

\* params of the request (lines 48-51).
SearxNGParams(query, kwargs) ==
    Update(JDict(<< <<"q", query>>, <<"format", JStr("json")>> >>), kwargs)

\* What SearxNGSearchAPIWrapper.results ends with: the exception raised again,
\* or the list of processed records.
ResultsFailure(error) == [exc |-> TRUE, error |-> error, list |-> << >>]
ResultsList(list) == [exc |-> FALSE, error |-> "", list |-> list]

\* SearxNGResults raising when the response has no results key.
SearxNGResults_RequireResults(h) ==
    IF h.exc \/ RaisesForStatus(h.status) \/ ~h.body.json \/ ~HasKey(h.body.v, "results")
    THEN ResultsFailure("KeyError")
    ELSE LET results == Get(h.body.v, "results").items IN
         ResultsList([i \in 1..Len(results) |-> SearxNGProcessed(results[i])])

\* SearxNGSearchAPIWrapper.results after requests.get (lines 63-111).
SearxNGResults(h) ==
    IF h.exc THEN ResultsFailure("requests.ConnectionError")
    ELSE IF RaisesForStatus(h.status) THEN ResultsFailure("requests.HTTPError")
    ELSE IF ~h.body.json THEN ResultsFailure("requests.JSONDecodeError")
    ELSE LET data == h.body.v IN
         IF HasKey(data, "results")
         THEN LET results == Get(data, "results").items IN
              ResultsList([i \in 1..Len(results) |-> SearxNGProcessed(results[i])])
         ELSE ResultsList(<< >>)

\* The exceptions `except ValueError` catches: JSONDecodeError is a ValueError.
IsValueError(error) == error \in {"ValueError", "requests.JSONDecodeError"}

\* json.dumps({"error": True, "message": ...}) (lines 229 and 232).
ErrorJson(message) ==
    ToolOutput("json",
        << Dumps(JDict(<< <<"error", [t |-> "bool", v |-> "True"]>>,
                          <<"message", JStr(message)>> >>)) >>, NoArtifact)

\* SearxNGFinish catching ValueError only: any other exception leaves the tool.
SearxNGFinish_ValueErrorOnly(r) ==
    IF r.exc
    THEN IF IsValueError(r.error)
         THEN Returned(ErrorJson("Argument extraction failed"))
         ELSE Raised(r.error, {})
    ELSE Returned(ToolOutput("json", << Dumps(JList(r.list)) >>, NoArtifact))

\* _run and _arun after search_wrapper.results (lines 215-232 and 249-266).
SearxNGFinish(r) ==
    IF r.exc
    THEN IF IsValueError(r.error)
         THEN Returned(ErrorJson("Argument extraction failed"))
         ELSE Returned(ErrorJson("An unexpected error occurred"))
    ELSE Returned(ToolOutput("json", << Dumps(JList(r.list)) >>, NoArtifact))

\* The inputs the tool is run with.
SearxNGInputs ==
    { JDict(<< <<"query", JStr("cute panda")>> >>),
      JDict(<< <<"query", JStr("cute panda")>>, <<"language", JStr("en")>> >>),
      JDict(<< <<"args", JDict(<< <<"query", JStr("cute panda")>>,
                                  <<"pageno", JStr("2")>> >>)>> >>),
      JDict(<< <<"args", JList(<< JStr("cute panda") >>)>>,
               <<"kwargs", JDict(<< <<"language", JStr("en")>> >>)>> >>),
      JDict(<< <<"args", JDict(<< <<"pageno", JStr("2")>> >>)>> >>),
      JDict(<< <<"query", JStr("")>> >>),
      JDict(<< >>) }

\* _run of the logged tool up to requests.get: the mixin drops the key args
\* (decorators.py lines 64-75), then lines 209-213 and 42-63; a failed
\* extraction ends the call with the error document (lines 227-229).
SearxNGRun(tool_kwargs) ==
    /\ spc = "ready"
    /\ tool.kind = SearxNGTool
    /\ LET e == ExtractQueryAndKwargs(FilteredKwargs(tool_kwargs)) IN
       IF e.exc
       THEN /\ search_result' = Returned(ErrorJson("Argument extraction failed"))
            /\ spc' = "done"
            /\ UNCHANGED search_requests
       ELSE /\ search_requests' = Append(search_requests,
                  [target |-> tool.searxng_base_url,
                   params |-> SearxNGParams(e.query, e.kwargs)])
            /\ spc' = "searxng"
            /\ UNCHANGED search_result
    /\ UNCHANGED <<environ, calls, call_args, tool, replay_vars, crawl_vars>>

\* The SearxNG instance answers; the rest of results and of _run (lines 65-111, 215-232).
SearxNGResponse(h) ==
    /\ spc = "searxng"
    /\ search_responses' = Append(search_responses, h)
    /\ search_result' = SearxNGFinish(SearxNGResults(h))
    /\ spc' = "done"
    /\ UNCHANGED <<environ, calls, call_args, tool, search_requests, async_result, crawl_vars>>

\* _arun with the same input, answered as _run was (lines 234-266): the same
\* wrapper call in a worker thread.
SearxNGArun ==
    /\ spc = "done"
    /\ tool.kind = SearxNGTool
    /\ async_result = Pending
    /\ search_responses # << >>
    /\ search_requests' = Append(search_requests, search_requests[1])
    /\ async_result' = SearxNGFinish(SearxNGResults(search_responses[1]))
    /\ UNCHANGED <<environ, calls, call_args, tool, spc, search_result, search_responses, crawl_vars>>

(***************************************************************************)
(* The search tools, built by the dispatcher or directly, and run         *)
(***************************************************************************)

NumResultsArgs == {3}

InitTools ==
    /\ environ \in [EnvNames -> UNION {EnvValues(n) : n \in EnvNames}]
    /\ \A n \in EnvNames :
          IF n \in SearchEnvNames THEN environ[n] \in EnvValues(n) ELSE environ[n] = UNSET
    /\ CrawlIdle
    /\ SearchIdle
    /\ CallsIdle

NextTools ==
    \/ \E m \in NumResultsArgs : GetWebSearchTool(m)
    \/ \E m \in NumResultsArgs, f \in OutputFormats, k \in KeysToInclude :
          NewDuckDuckGoSearchResults(m, f, k)
    \/ \E q \in Queries : TavilyRun(q)
    \/ \E h \in TavilyHttpOutcomes : TavilyHttpResponse(h)
    \/ TavilyArun
    \/ \E q \in Queries : DuckDuckGoRun(q)
    \/ \E o \in DuckDuckGoOutcomes : DuckDuckGoResponse(o)
    \/ \E q \in Queries : BraveRun(q)
    \/ \E o \in BraveOutcomes : BraveResponse(o)
    \/ \E i \in SearxNGInputs : SearxNGRun(i)
    \/ \E h \in SearxNGOutcomes : SearxNGResponse(h)
    \/ SearxNGArun

SpecTools == InitTools /\ [][NextTools]_vars

(***************************************************************************)
(* Two calls at once: each call's locals are a frame of its own            *)
(***************************************************************************)

\* Crawler.crawl(url) up to the first request (crawler.py lines 25-38,
\* crawl4ai_client.py lines 16-71): a new client and new locals per call.
CrawlStart(url) ==
    LET selected == SelectClient(CRAWLER_TYPE, CRAWL4AI_URL) IN
    [kind |-> "crawl", arg |-> url, client |-> selected,
     pc |-> IF selected = "crawl4ai" THEN "primary" ELSE "jina",
     requests |-> IF selected = "crawl4ai"
                  THEN <<Request("crawl4ai", Headers("html"), Data(url, "html"))>>
                  ELSE <<JinaRequest(url, "html")>>,
     responses |-> << >>, response |-> 0, caught |-> 0, result |-> Pending]

\* The frame c of a crawl call after its pending request is answered by o,
\* url being the local `url` (crawl4ai_client.py lines 71-186).
CrawlAnswered(c, url, o) ==
    LET n == Len(c.requests)
        c1 == [c EXCEPT !.responses = Append(@, o)]
        except(idx) ==
            [c1 EXCEPT !.caught = idx, !.pc = "fallback_exc",
                       !.requests = Append(@, Request("crawl4ai", FallbackHeaders,
                                                      FallbackData(url)))]
        finish(res) == [c1 EXCEPT !.result = res, !.pc = "done"]
        normalized == [finish(Returned(NormalizePrimary(o.body, url))) EXCEPT !.response = n]
    IN  CASE c.pc = "primary" ->
                IF o.exc THEN except(n)
                ELSE IF IsUnprocessable(o.status)
                THEN [c1 EXCEPT !.response = n, !.pc = "fallback_422",
                                !.requests = Append(@, Request("crawl4ai", Headers("html"),
                                                               FallbackData(url)))]
                ELSE IF RaisesForStatus(o.status) THEN except(n)
                ELSE normalized
          [] c.pc = "fallback_422" ->
                IF o.exc THEN except(n)
                ELSE IF FallbackSucceeded(o.status) THEN normalized
                ELSE finish(Raised("RuntimeError", {c.response}))
          [] c.pc = "fallback_exc" ->
                IF ~o.exc /\ FallbackSucceeded(o.status)
                THEN finish(Returned(NormalizeFallback(o.body, url)))
                ELSE finish(Raised("RuntimeError", {c.caught}))
          [] OTHER ->
                IF o.exc THEN finish(Raised("RequestException", {n}))
                ELSE finish(Returned(Text(o.body)))

\* search_wrapper.results(query) up to requests.get (enhanced_searxng_search.py
\* lines 42-63): the wrapper is shared, params and response are locals.
SearchStart(query) ==
    [kind |-> "search", arg |-> query, client |-> "searxng", pc |-> "searxng",
     requests |-> << [target |-> Getenv("SEARXNG_BASE_URL", ""),
                      params |-> SearxNGParams(JStr(query), JDict(<< >>))] >>,
     responses |-> << >>, response |-> 0, caught |-> 0, result |-> Pending]

\* The frame c of a search call after requests.get is answered by h (lines 65-111).
SearchAnswered(c, h) ==
    LET r == SearxNGResults(h) IN
    [c EXCEPT !.responses = Append(@, h), !.pc = "done",
              !.result = IF r.exc THEN Raised(r.error, {1}) ELSE Returned(JList(r.list))]

\* LocalUrl reading the url of the other call when that one is a crawl call.
LocalUrl_OtherCall(id) ==
    IF calls[3 - id].kind = "crawl" THEN calls[3 - id].arg ELSE calls[id].arg

\* The local `url` of call id (parameter of Crawl4aiClient.crawl, line 16).
LocalUrl(id) == calls[id].arg

\* What the crawl backend and the SearxNG instance answer while two calls run.
ConcurrentCrawlOutcomes ==
    { TransportError,
      Answer(HTTP_OK, RawBody("<html>page</html>")),
      Answer(HTTP_OK, JsonBody(JDict(<< <<"results",
                 JDict(<< <<"u2", EntryNoContent>>, <<"u1", EntryWithContent("c1")>> >>)>> >>))),
      Answer(HTTP_UNPROCESSABLE, JsonBody(JDict(<< <<"detail", JStr("unprocessable")>> >>))),
      Answer(500, RawBody("")) }
ConcurrentSearchOutcomes ==
    { TransportError,
      Answer(HTTP_OK, JsonBody(JDict(<< <<"results", JList(<< >>)>> >>))),
      Answer(HTTP_OK, JsonBody(JDict(<< <<"results",
                 JList(<< JDict(<< <<"title", JStr("S1")>>, <<"url", JStr("http://s1")>>,
                                   <<"content", JStr("text s1")>> >>) >>)>> >>))),
      Answer(404, RawBody("<html>")) }

\* Call id starts as a crawl call.
StartCrawl(id, url) ==
    /\ calls[id].kind = "none"
    /\ calls' = [calls EXCEPT ![id] = CrawlStart(url)]
    /\ UNCHANGED <<environ, crawl_vars, search_vars>>

\* The pending request of crawl call id is answered.
AnswerCrawl(id, o) ==
    /\ calls[id].kind = "crawl"
    /\ calls[id].pc # "done"
    /\ calls' = [calls EXCEPT ![id] = CrawlAnswered(calls[id], LocalUrl(id), o)]
    /\ UNCHANGED <<environ, crawl_vars, search_vars>>

\* Call id starts as a search call.
StartSearch(id, query) ==
    /\ calls[id].kind = "none"
    /\ calls' = [calls EXCEPT ![id] = SearchStart(query)]
    /\ UNCHANGED <<environ, crawl_vars, search_vars>>

\* The request of search call id is answered.
AnswerSearch(id, h) ==
    /\ calls[id].kind = "search"
    /\ calls[id].pc # "done"
    /\ calls' = [calls EXCEPT ![id] = SearchAnswered(calls[id], h)]
    /\ UNCHANGED <<environ, crawl_vars, search_vars>>

\* The configurations under which two calls run: crawl4ai or the default
\* crawler, with the crawl4ai and SearxNG urls set.
InitConcurrent ==
    /\ environ \in [EnvNames -> UNION {EnvValues(n) : n \in EnvNames}]
    /\ environ["CRAWLER_TYPE"] \in {UNSET, "crawl4ai"}
    /\ environ["CRAWL4AI_URL"] = "http://crawl4ai/crawl"
    /\ environ["SEARXNG_BASE_URL"] = "http://searxng/search"
    /\ environ["SEARCH_API"] = "searxng"
    /\ CrawlIdle
    /\ SearchIdle
    /\ CallsIdle

NextConcurrent ==
    \/ \E id \in CallIds, url \in Urls : StartCrawl(id, url)
    \/ \E id \in CallIds, o \in ConcurrentCrawlOutcomes : AnswerCrawl(id, o)
    \/ \E id \in CallIds, q \in Queries : StartSearch(id, q)
    \/ \E id \in CallIds, h \in ConcurrentSearchOutcomes : AnswerSearch(id, h)

SpecConcurrent == InitConcurrent /\ [][NextConcurrent]_vars

(***************************************************************************)
(* Wrapper methods and helpers called on their own                         *)
(***************************************************************************)

\* The inputs _extract_query_and_kwargs is called with: those of the tool, and
\* inputs where an args key and a query key meet, or the query is empty.
ExtractInputs ==
    SearxNGInputs \cup
    { JDict(<< <<"args", JDict(<< >>)>>, <<"query", JStr("cute panda")>> >>),
      JDict(<< <<"args", JList(<< >>)>>, <<"query", JStr("cute panda")>> >>),
      JDict(<< <<"args", JList(<< JStr("") >>)>> >>),
      JDict(<< <<"args", JDict(<< <<"query", JStr("")>> >>)>> >>),
      JDict(<< <<"args", JStr("cute panda")>> >>) }

\* tool._extract_query_and_kwargs(tool_kwargs), called on the tool the factory built.
ExtractCall(tool_kwargs) ==
    /\ spc = "ready"
    /\ tool.kind = SearxNGTool
    /\ call_args' = [op |-> "_extract_query_and_kwargs", tool_kwargs |-> tool_kwargs]
    /\ search_result' =
          LET e == ExtractQueryAndKwargs(tool_kwargs) IN
          IF e.exc THEN Raised("ValueError", {}) ELSE Returned(e)
    /\ spc' = "called"
    /\ UNCHANGED <<environ, calls, tool, search_requests, replay_vars, crawl_vars>>

\* The count and the extra keyword arguments the wrapper is run with
\* (test_brave_fix.py, lines 15-34).
BraveCounts == {NoCount, Count(3)}
BraveWrapperKwargs == {JDict(<< >>), JDict(<< <<"country", JStr("US")>> >>)}

\* The search_kwargs a wrapper is built with by hand: none, or a count.
BraveSearchKwargs == {NoCount, Count(5)}

\* EnhancedBraveSearch(search_wrapper=EnhancedBraveSearchWrapper(...)), built by
\* hand with or without search_kwargs.
NewEnhancedBraveSearch(search_kwargs) ==
    /\ spc = "idle"
    /\ tool' = IF search_kwargs.none
               THEN [kind |-> BraveTool, name |-> "brave_search", logged |-> FALSE]
               ELSE [kind |-> BraveTool, name |-> "brave_search", logged |-> FALSE,
                     count |-> search_kwargs.n]
    /\ spc' = "ready"
    /\ UNCHANGED <<environ, calls, call_args, search_requests, search_result, replay_vars,
                   crawl_vars>>

\* The underlying run does not accept count (line 37); the stand-in of
\* test_fix.py (line 6) accepts any other keyword argument.
UnderlyingRejects(call) == HasKey(call.kwargs, "count")

\* search_wrapper.run(query, count, **kwargs) up to the underlying run (lines 19-38).
BraveWrapperRun(query, count, kwargs) ==
    /\ spc = "ready"
    /\ tool.kind = BraveTool
    /\ call_args' = [op |-> "EnhancedBraveSearchWrapper.run", query |-> query,
                     count |-> count, kwargs |-> kwargs]
    /\ search_requests' = Append(search_requests, SuperRun(tool, query, count, kwargs))
    /\ spc' = "brave_wrapper"
    /\ UNCHANGED <<environ, calls, tool, search_result, replay_vars, crawl_vars>>

\* The underlying run ends; the rest of run (lines 40-50): the results are
\* returned as they are, an exception is logged and raised again.
BraveWrapperResponse(o) ==
    /\ spc = "brave_wrapper"
    /\ search_responses' = Append(search_responses, o)
    /\ search_result' =
          IF UnderlyingRejects(search_requests[Len(search_requests)])
          THEN Raised("TypeError", {})
          ELSE IF o.exc THEN Raised("Exception", {Len(search_requests)})
          ELSE Returned(o.list)
    /\ spc' = "called"
    /\ UNCHANGED <<environ, calls, call_args, tool, search_requests, async_result, crawl_vars>>

\* The extra keyword parameters `results` is called with.
SearxNGKwargs ==
    { JDict(<< >>),
      JDict(<< <<"language", JStr("en")>> >>),
      JDict(<< <<"format", JStr("html")>> >>),
      JDict(<< <<"q", JStr("other")>>, <<"pageno", JStr("2")>> >>) }

\* search_wrapper.results(query, **kwargs) up to requests.get (lines 32-63).
SearxNGResultsRun(query, kwargs) ==
    /\ spc = "ready"
    /\ tool.kind = SearxNGTool
    /\ call_args' = [op |-> "SearxNGSearchAPIWrapper.results", query |-> query,
                     kwargs |-> kwargs]
    /\ search_requests' = Append(search_requests,
          [target |-> tool.searxng_base_url,
           params |-> SearxNGParams(JStr(query), kwargs)])
    /\ spc' = "searxng_wrapper"
    /\ UNCHANGED <<environ, calls, tool, search_result, replay_vars, crawl_vars>>

\* The SearxNG instance answers; the rest of results (lines 65-111).
SearxNGResultsResponse(h) ==
    /\ spc = "searxng_wrapper"
    /\ search_responses' = Append(search_responses, h)
    /\ search_result' =
          LET r == SearxNGResults(h) IN
          IF r.exc THEN Raised(r.error, {Len(search_requests)}) ELSE Returned(r.list)
    /\ spc' = "called"
    /\ UNCHANGED <<environ, calls, call_args, tool, search_requests, async_result, crawl_vars>>

\* The positional and keyword arguments _run of a logged tool is called with.
LoggedArgs == {<< >>, <<"cute panda">>}
LoggedKwargs ==
    { JDict(<< >>),
      JDict(<< <<"query", JStr("cute panda")>> >>),
      JDict(<< <<"args", JList(<< JStr("cute panda") >>)>>,
               <<"language", JStr("en")>> >>),
      JDict(<< <<"args", JDict(<< <<"query", JStr("cute panda")>> >>)>> >>) }

\* What _run of the wrapped tool class ends with: a result, or an exception.
WrappedResult(value) == [exc |-> FALSE, value |-> value, type |-> ""]
WrappedRaise(type) == [exc |-> TRUE, value |-> NoValue, type |-> type]
WrappedOutcomes ==
    {WrappedResult(JStr("result")), WrappedResult(JList(<< >>)), WrappedRaise("ValueError")}

\* LoggedToolMixin._run up to super()._run (decorators.py lines 64-75), on a
\* tool of a class made by create_logged_tool.
LoggedRun(args, kwargs) ==
    /\ spc = "ready"
    /\ Field(tool, "logged", TRUE)
    /\ call_args' = [op |-> "LoggedToolMixin._run", args |-> args, kwargs |-> kwargs]
    /\ search_requests' = Append(search_requests,
          [target |-> "super()._run", args |-> args, kwargs |-> FilteredKwargs(kwargs)])
    /\ spc' = "wrapped"
    /\ UNCHANGED <<environ, calls, tool, search_result, replay_vars, crawl_vars>>

\* The wrapped _run ends; the rest of LoggedToolMixin._run (lines 75-84): the
\* result is logged and returned; nothing catches an exception.
LoggedReturn(o) ==
    /\ spc = "wrapped"
    /\ search_responses' = Append(search_responses, o)
    /\ search_result' = IF o.exc THEN Raised(o.type, {}) ELSE Returned(o.value)
    /\ spc' = "called"
    /\ UNCHANGED <<environ, calls, call_args, tool, search_requests, async_result, crawl_vars>>

InitCalls ==
    /\ environ \in [EnvNames -> UNION {EnvValues(n) : n \in EnvNames}]
    /\ \A n \in EnvNames :
          IF n \in SearchEnvNames THEN environ[n] \in EnvValues(n) ELSE environ[n] = UNSET
    /\ CrawlIdle
    /\ SearchIdle
    /\ CallsIdle

NextCalls ==
    \/ \E m \in NumResultsArgs : GetWebSearchTool(m)
    \/ \E i \in ExtractInputs : ExtractCall(i)
    \/ \E k \in BraveSearchKwargs : NewEnhancedBraveSearch(k)
    \/ \E q \in Queries, c \in BraveCounts, k \in BraveWrapperKwargs : BraveWrapperRun(q, c, k)
    \/ \E o \in BraveOutcomes : BraveWrapperResponse(o)
    \/ \E q \in Queries, k \in SearxNGKwargs : SearxNGResultsRun(q, k)
    \/ \E h \in SearxNGOutcomes : SearxNGResultsResponse(h)
    \/ \E a \in LoggedArgs, k \in LoggedKwargs : LoggedRun(a, k)
    \/ \E o \in WrappedOutcomes : LoggedReturn(o)

SpecCalls == InitCalls /\ [][NextCalls]_vars

(***************************************************************************)
(* Properties                                                              *)
(***************************************************************************)

\* A request failed: it raised, or it was answered with a 4xx/5xx status.
Failed(o) == o.exc \/ RaisesForStatus(o.status)

\* The answer is an HTTP response with this status.
Answered(o, status) == ~o.exc /\ o.status = status

\* C1: one call of Crawl4aiClient.crawl issues at most two HTTP requests.
C1_AtMostTwoRequests == Len(requests) <= 2

\* C2: when the primary request of Crawl4aiClient.crawl is answered with 422
\* or fails with a transport error, the step that receives this failure sends
\* a fallback request (payload: the URL only) and the call has not ended.
C2_FallbackIssuedNext ==
    [][(/\ pc = "primary"
        /\ Len(responses') = 1
        /\ (responses'[1].exc \/ Answered(responses'[1], HTTP_UNPROCESSABLE)))
       => (/\ Len(requests') = 2
           /\ requests'[2].target = "crawl4ai"
           /\ requests'[2].json = FallbackData(crawl_url)
           /\ pc' # "done"
           /\ result' = Pending)]_vars

C2_Witness ==
    /\ pc = "fallback_exc"
    /\ Len(responses) = 1
    /\ responses[1].exc
    /\ Len(requests) = 2

\* C3: after a primary response of 422, the second request holds only the URL
\* to crawl: no crawler_config, format, options, and no return-format header.
C3_FallbackMinimal ==
    (Len(responses) >= 1 /\ Answered(responses[1], HTTP_UNPROCESSABLE) /\ Len(requests) >= 2)
    => (/\ DOMAIN requests[2].json = {"urls"}
        /\ "X-Return-Format" \notin DOMAIN requests[2].headers)

\* C4: when the primary request and the fallback request both fail, the call
\* raises an error that carries the failure of the primary request and the
\* failure of the fallback request.
C4_BothCausesCarried ==
    (/\ pc = "done"
     /\ client = "crawl4ai"
     /\ Len(responses) >= 2
     /\ \A i \in 1..Len(responses) : Failed(responses[i]))
    => (/\ result.kind = "raise"
        /\ {1, Len(responses)} \subseteq result.carries)

\* C5: when a fallback request of Crawl4aiClient.crawl is answered with 200,
\* the call ends there and returns the normalized content of that response,
\* after a 422 and after a transport error alike.
C5_FallbackSuccessReturned ==
    \A i \in 2..Len(responses) :
        (client = "crawl4ai" /\ Answered(responses[i], HTTP_OK))
        => (/\ pc = "done"
            /\ i = Len(responses)
            /\ result.kind = "return"
            /\ result.value =
                  IF Answered(responses[i-1], HTTP_UNPROCESSABLE)
                  THEN NormalizePrimary(responses[i].body, crawl_url)
                  ELSE NormalizeFallback(responses[i].body, crawl_url))

C5_Witness ==
    /\ pc = "done"
    /\ Len(responses) = 2
    /\ Answered(responses[1], HTTP_UNPROCESSABLE)
    /\ Answered(responses[2], HTTP_OK)
    /\ responses[2].body.json
    /\ result.kind = "return"

\* get_web_search_tool has run.
Dispatched ==
    \/ spc = "done" /\ tool.kind = "none"
    \/ tool.kind # "none" /\ tool.name = "web_search"

\* C6: when SEARCH_API is unset or is not a known identifier, the search
\* entry point raises a configuration error and no request has been sent.
C6_UnsetOrUnknownRaises ==
    (Dispatched /\ environ["SEARCH_API"] \notin SearchEngineValues)
    => (/\ search_result.kind = "raise"
        /\ search_result.type = "ValueError"
        /\ search_requests = << >>)

\* C6 (amended): when SEARCH_API is set to a value that is not a SearchEngine
\* value, get_web_search_tool raises ValueError and no request has been sent;
\* when SEARCH_API is unset, the Tavily tool is selected and no ValueError is raised.
C6_UnknownRaisesUnsetDefaults ==
    Dispatched =>
        /\ (environ["SEARCH_API"] # UNSET /\ environ["SEARCH_API"] \notin SearchEngineValues)
           => (/\ search_result.kind = "raise"
               /\ search_result.type = "ValueError"
               /\ tool.kind = "none"
               /\ search_requests = << >>)
        /\ environ["SEARCH_API"] = UNSET
           => (tool.kind = TavilyTool /\ search_result.type # "ValueError")

C6_Witness ==
    /\ spc = "done"
    /\ environ["SEARCH_API"] = "google"
    /\ search_result.type = "ValueError"
    /\ search_requests = << >>

\* C7: when CRAWLER_TYPE is neither jina nor crawl4ai, Crawler.crawl raises
\* a configuration error before any network activity.
C7_UnknownBackendRaises ==
    (pc # "idle" /\ CRAWLER_TYPE \notin {"jina", "crawl4ai"})
    => (/\ result.kind = "raise"
        /\ result.type = "ConfigurationError"
        /\ requests = << >>)

\* C7 (amended): when CRAWLER_TYPE is neither jina nor crawl4ai, Crawler.crawl
\* raises no configuration error: it selects the Jina client, and every
\* request of the call goes to the Jina backend.
C7_UnknownBackendUsesJina ==
    (pc # "idle" /\ CRAWLER_TYPE \notin {"jina", "crawl4ai"})
    => (/\ client = "jina"
        /\ Len(requests) >= 1
        /\ \A i \in 1..Len(requests) : requests[i].target = "jina"
        /\ result.type # "ConfigurationError")

C7_Witness ==
    /\ pc = "done"
    /\ CRAWLER_TYPE = "firecrawl"
    /\ ~Falsy(CRAWL4AI_URL)
    /\ result.kind = "return"

\* C8: with CRAWLER_TYPE crawl4ai and CRAWL4AI_URL unset, Crawler.crawl uses
\* the Jina client and sends nothing to crawl4ai; and a call that sent a
\* request to crawl4ai never sends one to Jina, however that request ends.
C8_ConfigTimeFallbackOnly ==
    /\ (pc # "idle" /\ CRAWLER_TYPE = "crawl4ai" /\ Falsy(CRAWL4AI_URL))
       => (/\ client = "jina"
           /\ \A i \in 1..Len(requests) : requests[i].target = "jina")
    /\ \A i, j \in 1..Len(requests) :
          ~(requests[i].target = "crawl4ai" /\ requests[j].target = "jina")

C8_Witness ==
    /\ pc = "done"
    /\ CRAWLER_TYPE = "crawl4ai"
    /\ environ["CRAWL4AI_URL"] = UNSET
    /\ Len(requests) = 1
    /\ requests[1].target = "jina"

\* The tool class of each provider identifier of the specification.
ProviderTool(id) ==
    CASE id = "tavily" -> TavilyTool
      [] id = "duckduckgo" -> DuckDuckGoTool
      [] id = "brave" -> BraveTool
      [] id = "brave_search" -> BraveTool
      [] id = "arxiv" -> ArxivTool
      [] id = "searxng" -> SearxNGTool

\* C9: for each of the identifiers tavily, duckduckgo, brave, arxiv and
\* searxng, get_web_search_tool selects the tool of that provider without raising.
C9_EachIdentifierSelectsItsTool ==
    (Dispatched /\ environ["SEARCH_API"] \in {"tavily", "duckduckgo", "brave", "arxiv", "searxng"})
    => (/\ tool.kind = ProviderTool(environ["SEARCH_API"])
        /\ search_result.type # "ValueError")

\* C9 (amended): for each of the identifiers tavily, duckduckgo, brave_search,
\* arxiv and searxng, get_web_search_tool selects the tool of that provider
\* and of no other without raising ValueError, except that searxng raises
\* ValueError when SEARXNG_BASE_URL is unset or empty.
C9_EachEnumValueSelectsItsTool ==
    (Dispatched /\ environ["SEARCH_API"] \in SearchEngineValues)
    => IF environ["SEARCH_API"] = "searxng" /\ Falsy(environ["SEARXNG_BASE_URL"])
       THEN search_result.type = "ValueError" /\ tool.kind = "none"
       ELSE /\ tool.kind = ProviderTool(environ["SEARCH_API"])
            /\ search_result.type # "ValueError"

C9_Witness ==
    /\ spc = "ready"
    /\ environ["SEARCH_API"] = "brave_search"
    /\ tool.kind = BraveTool
    /\ tool.name = "web_search"

\* C10: with include_images false, the output of the Tavily tool holds no
\* image entry, whatever the raw response holds under images.
C10_NoImagesWhenDisabled ==
    (/\ spc = "done"
     /\ tool.kind = TavilyTool
     /\ ~tool.include_images
     /\ search_result.kind = "return")
    => \A i \in 1..Len(search_result.value.items) :
          search_result.value.items[i].type # "image"

\* C11: a DuckDuckGo tool whose output format selector is none of list, json
\* and string fails with a ValueError before any request is issued: once such
\* a tool runs, no request has been sent and the call has raised ValueError.
C11_InvalidFormatRejectedBeforeCall ==
    (tool.kind = DuckDuckGoTool /\ spc \in {"duckduckgo", "done"}
        /\ Field(tool, "output_format", "string") \notin {"list", "json", "string"})
    => /\ search_requests = << >>
       /\ search_result.kind = "raise"
       /\ search_result.type = "ValueError"

\* The tool of the given kind has finished a call whose provider answer arrived.
Finished(kind) == tool.kind = kind /\ spc = "done" /\ search_responses # << >>

\* The Tavily response was received and parsed.
TavilyReceived == Finished(TavilyTool) /\ ~raw_results(search_responses[1]).exc

\* The parsed Tavily response.
TavilyRaw == raw_results(search_responses[1]).raw

\* Every entry of the list under key, when the key is there, is an object.
EntriesAreObjects(raw, key) ==
    HasKey(raw, key) => \A i \in 1..Len(Get(raw, key).items) : IsDict(Get(raw, key).items[i])

\* Every entry of the list under key, when the key is there, is an object
\* with all of keys.
EntriesComplete(raw, key, keys) ==
    HasKey(raw, key) =>
        \A i \in 1..Len(Get(raw, key).items) : ItemError(Get(raw, key).items[i], keys) = ""

\* Each field of out that rec has no source key for is the empty string.
AbsentIsEmpty(rec, out, pairs) ==
    \A pr \in pairs : ~HasKey(rec, pr[1]) => Get(out, pr[2]) = JStr("")

\* The records a finished SearxNG call returns.
SearxNGOutput == search_result.value.items[1].v.items

\* The SearxNG response was received and parsed into an object.
SearxNGReceived ==
    /\ Finished(SearxNGTool)
    /\ ~search_responses[1].exc
    /\ search_responses[1].status < 400
    /\ search_responses[1].body.json

\* The `results` list of the SearxNG response, empty when the key is missing.
SearxNGProvided ==
    LET data == search_responses[1].body.v
    IN IF HasKey(data, "results") THEN Get(data, "results").items ELSE << >>

\* C12: no provider normalizer raises on a record that lacks an optional
\* field, and the absent field comes out as the empty string: a Tavily
\* response with a results list of objects (and images, if any, that are
\* objects) is never answered by an exception, and Brave and SearxNG records
\* lacking title, url or description/content yield "" in that field.
C12_MissingFieldNeverRaises ==
    /\ (TavilyReceived /\ HasKey(TavilyRaw, "results")
            /\ EntriesAreObjects(TavilyRaw, "results")
            /\ EntriesAreObjects(TavilyRaw, "images"))
       => search_result.kind = "return"
    /\ (Finished(BraveTool) /\ ~search_responses[1].exc)
       => /\ search_result.kind = "return"
          /\ \A i \in 1..Len(search_responses[1].list) :
                AbsentIsEmpty(search_responses[1].list[i], search_result.value.items[i],
                    {<<"title", "title">>, <<"url", "link">>, <<"description", "snippet">>})
    /\ SearxNGReceived
       => /\ search_result.kind = "return"
          /\ \A i \in 1..Len(SearxNGProvided) :
                AbsentIsEmpty(SearxNGProvided[i], SearxNGOutput[i],
                    {<<"title", "title">>, <<"url", "link">>, <<"content", "snippet">>})

\* C13: a received Tavily response without a results key, or with
\* entries of images that are not objects, whose records are otherwise
\* complete, is recovered by the tool: the call returns and raises nothing.
C13_ShapeMismatchRecovered ==
    (TavilyReceived
        /\ (~HasKey(TavilyRaw, "results") \/ ~EntriesAreObjects(TavilyRaw, "images"))
        /\ EntriesComplete(TavilyRaw, "results", {"title", "url", "content", "score"})
        /\ (HasKey(TavilyRaw, "images") =>
               \A i \in 1..Len(Get(TavilyRaw, "images").items) :
                  IsDict(Get(TavilyRaw, "images").items[i])
                     => ItemError(Get(TavilyRaw, "images").items[i], {"url", "description"}) = ""))
    => search_result.kind = "return"

\* A JSON value with no shape the crawl4ai client recognizes: neither an
\* object with content or results, nor a non-empty array.
Unrecognized(j) ==
    /\ ~(IsDict(j) /\ (HasKey(j, "content") \/ HasKey(j, "results")))
    /\ ~(IsList(j) /\ Len(j.items) > 0)

\* C14: a 200 response received by Crawl4aiClient.crawl is never answered by
\* an exception: the call ends there and returns; a body that is not JSON is
\* returned as its raw text, and a JSON body of no recognized shape is
\* returned whole, serialized.
C14_Status200NeverRaises ==
    \A i \in 1..Len(responses) :
        Answered(responses[i], HTTP_OK) =>
            /\ pc = "done"
            /\ result.kind = "return"
            /\ ~responses[i].body.json => result.value = Text(responses[i].body)
            /\ (responses[i].body.json /\ Unrecognized(responses[i].body.v))
                  => result.value = Dumps(responses[i].body.v)

C14_Witness ==
    /\ pc = "done"
    /\ Len(responses) = 1
    /\ Answered(responses[1], HTTP_OK)
    /\ ~responses[1].body.json
    /\ result = Returned(Text(responses[1].body))

\* C15: a successful SearxNG response whose results key is missing or holds
\* an empty list makes the tool return the empty list, serialized, and a
\* Brave answer with no records makes the tool return the empty list;
\* neither raises.
C15_EmptyYieldsEmpty ==
    /\ (SearxNGReceived /\ SearxNGProvided = << >>)
       => search_result = Returned(ToolOutput("json", << Dumps(JList(<< >>)) >>, NoArtifact))
    /\ (Finished(BraveTool) /\ ~search_responses[1].exc /\ search_responses[1].list = << >>)
       => search_result = Returned(ToolOutput("list", << >>, NoArtifact))

C15_Witness ==
    /\ SearxNGReceived
    /\ ~HasKey(search_responses[1].body.v, "results")
    /\ search_result.kind = "return"
    /\ SearxNGOutput = << >>

\* out holds one record for each record of provided, in the same order:
\* the i-th output record carries the url of the i-th provider record.
SameOrder(provided, out) ==
    /\ Len(out) = Len(provided)
    /\ \A i \in 1..Len(provided) :
          HasKey(provided[i], "url") => Get(out[i], "link") = Get(provided[i], "url")

\* The `results` and `images` lists of the parsed Tavily response.
TavilyProvidedPages == Get(TavilyRaw, "results").items
TavilyProvidedImages ==
    IF HasKey(TavilyRaw, "images") THEN Get(TavilyRaw, "images").items ELSE << >>

\* C16: whenever normalization yields an output, it has one record per
\* provider record in the provider's order, nothing dropped, duplicated or
\* deduplicated (Brave, SearxNG, Tavily); a Tavily output is the page records
\* in order, each tagged page, followed by the image records in order, each
\* tagged image.
C16_OrderAndCardinalityKept ==
    /\ (Finished(BraveTool) /\ search_result.kind = "return")
       => SameOrder(search_responses[1].list, search_result.value.items)
    /\ SearxNGReceived
       => SameOrder(SearxNGProvided, SearxNGOutput)
    /\ (TavilyReceived /\ search_result.kind = "return")
       => LET out == search_result.value.items
              n == Len(TavilyProvidedPages)
          IN /\ Len(out) = n + Len(TavilyProvidedImages)
             /\ \A i \in 1..n :
                   /\ out[i].type = "page"
                   /\ out[i].url = Get(TavilyProvidedPages[i], "url")
             /\ \A j \in 1..Len(TavilyProvidedImages) :
                   /\ out[n + j].type = "image"
                   /\ out[n + j].image_url = Get(TavilyProvidedImages[j], "url")

C16_Witness ==
    /\ TavilyReceived
    /\ search_result.kind = "return"
    /\ Len(TavilyProvidedPages) = 2
    /\ TavilyProvidedPages[1] # TavilyProvidedPages[2]
    /\ Len(TavilyProvidedImages) >= 1
    /\ Len(search_result.value.items) = 2 + Len(TavilyProvidedImages)

\* The keys of an object, in order.
Keys(d) == [i \in 1..Len(d.items) |-> d.items[i][1]]

\* The record with title and link taken from rec's title and url and snippet
\* taken from rec's snippetKey, "" for what rec lacks.
TitleLinkSnippet(rec, snippetKey) ==
    JDict(<< <<"title", IF HasKey(rec, "title") THEN Get(rec, "title") ELSE JStr("")>>,
             <<"link", IF HasKey(rec, "url") THEN Get(rec, "url") ELSE JStr("")>>,
             <<"snippet", IF HasKey(rec, snippetKey) THEN Get(rec, snippetKey) ELSE JStr("")>> >>)

DuckDuckGoAnswered ==
    /\ Finished(DuckDuckGoTool)
    /\ ~search_responses[1].exc
    /\ Field(tool, "output_format", "string") \in {"list", "json", "string"}

\* The records inside the value a finished DuckDuckGo call returns.
DuckDuckGoReturned ==
    LET out == search_result.value
    IN IF out.t = "list" THEN out.items
       ELSE IF out.t = "json" THEN out.items[1].v.items
       ELSE out.items[1].v

\* C18: with output format list and keys_to_include unset or empty, the
\* DuckDuckGo tool returns the provider's records unchanged; with a key
\* restriction each returned record holds exactly the entries of the provider
\* record whose key is listed, in the provider's order.
C18_PassThroughOrRestricted ==
    DuckDuckGoAnswered =>
        LET keys_to_include == Field(tool, "keys_to_include", KeysNone)
            provided == search_responses[1].list
            unrestricted == keys_to_include.none \/ keys_to_include.keys = << >>
        IN /\ search_result.kind = "return"
           /\ (unrestricted /\ Field(tool, "output_format", "string") = "list")
                 => search_result.value.items = provided
           /\ ~unrestricted =>
                 /\ Len(DuckDuckGoReturned) = Len(provided)
                 /\ \A i \in 1..Len(provided) :
                       DuckDuckGoReturned[i].items =
                          SelectSeq(provided[i].items,
                                    LAMBDA it : \E k \in 1..Len(keys_to_include.keys) :
                                                    keys_to_include.keys[k] = it[1])

C18_Witness ==
    /\ DuckDuckGoAnswered
    /\ tool.output_format = "list"
    /\ tool.keys_to_include = KeysList(<<"title">>)
    /\ Len(search_responses[1].list) = 2
    /\ \A i \in 1..2 : Keys(search_result.value.items[i]) = <<"title">>

\* The call ended by handing back the text of an exception.
IsErrorOutput(r) == r.kind = "return" /\ r.value.t = "repr(e)"

\* C19: run on the same query and answered by the same provider response,
\* _arun ends as _run did: both return the same value, or both fail (the
\* wording of the failure aside).
C19_AsyncMatchesBlocking ==
    async_result.kind # "none" =>
        IF IsErrorOutput(search_result) \/ IsErrorOutput(async_result)
        THEN IsErrorOutput(search_result) /\ IsErrorOutput(async_result)
        ELSE async_result = search_result

\* The frame a call reaches when it runs alone, started with arg and answered
\* by the given provider responses in order.
RECURSIVE Replay(_, _, _)
Replay(c, arg, answers) ==
    IF answers = << >> THEN c
    ELSE Replay(IF c.kind = "crawl" THEN CrawlAnswered(c, arg, Head(answers))
                ELSE SearchAnswered(c, Head(answers)),
                arg, Tail(answers))

Alone(kind, arg, answers) ==
    Replay(IF kind = "crawl" THEN CrawlStart(arg) ELSE SearchStart(arg), arg, answers)

EntryText(e) ==
    IF e.t = "dict" /\ (\E k \in 1..Len(e.items) : e.items[k][1] = "content")
    THEN e.items[CHOOSE k \in 1..Len(e.items) : e.items[k][1] = "content"][2]
    ELSE [t |-> "dumps", v |-> e]

\* C21: of a JSON body answered with status 200, Crawl4aiClient.crawl returns
\* the top-level content field when there is one; else, results being an
\* object, the entry keyed by the requested url, else the first entry of a
\* non-empty results object; for a non-empty array the first item; of the
\* chosen entry its content field when it is an object with one, else the
\* entry as JSON text.
C21_PrecedenceOfJsonShapes ==
    \A i \in 1..Len(responses) :
        (client = "crawl4ai" /\ Answered(responses[i], HTTP_OK) /\ responses[i].body.json) =>
            LET j == responses[i].body.v
                byResults == IsDict(j) /\ ~HasKey(j, "content") /\ HasKey(j, "results")
                                /\ IsDict(Get(j, "results"))
            IN /\ result.kind = "return"
               /\ (IsDict(j) /\ HasKey(j, "content")) => result.value = Get(j, "content")
               /\ (byResults /\ HasKey(Get(j, "results"), crawl_url))
                     => result.value = EntryText(Get(Get(j, "results"), crawl_url))
               /\ (byResults /\ ~HasKey(Get(j, "results"), crawl_url)
                      /\ Len(Get(j, "results").items) > 0)
                     => result.value = EntryText(Get(j, "results").items[1][2])
               /\ (IsList(j) /\ Len(j.items) > 0) => result.value = EntryText(j.items[1])

C21_Witness ==
    /\ pc = "done"
    /\ client = "crawl4ai"
    /\ crawl_url = "u1"
    /\ Len(responses) = 1
    /\ Answered(responses[1], HTTP_OK)
    /\ responses[1].body.json
    /\ IsDict(responses[1].body.v)
    /\ ~HasKey(responses[1].body.v, "content")
    /\ HasKey(responses[1].body.v, "results")
    /\ Len(Get(responses[1].body.v, "results").items) = 2
    /\ Get(responses[1].body.v, "results").items[1][1] # "u1"
    /\ result = Returned(JStr("c1"))

\* The arguments _extract_query_and_kwargs was called with, and the three
\* documented formats, in the order the code tries them.
ExtractArg == call_args.tool_kwargs
ExtractArgs == Get(ExtractArg, "args")
QueryInArgsDict ==
    /\ HasKey(ExtractArg, "args") /\ IsDict(ExtractArgs)
    /\ HasKey(ExtractArgs, "query") /\ Get(ExtractArgs, "query") # JStr("")
QueryFirstInArgsList ==
    /\ HasKey(ExtractArg, "args") /\ IsList(ExtractArgs)
    /\ ExtractArgs.items # << >> /\ ExtractArgs.items[1] # JStr("")
QueryDirectKey ==
    /\ ~(HasKey(ExtractArg, "args") /\ IsDict(ExtractArgs))
    /\ ~(HasKey(ExtractArg, "args") /\ IsList(ExtractArgs) /\ ExtractArgs.items # << >>)
    /\ HasKey(ExtractArg, "query") /\ Get(ExtractArg, "query") # JStr("")

\* C22: _extract_query_and_kwargs returns the query found inside an args
\* dictionary, as first element of an args list, or as a direct key; it raises
\* ValueError when none of the three gives a query; the query it returns is
\* never the empty string.
C22_QueryExtractedOrValueError ==
    call_args.op = "_extract_query_and_kwargs"
    => (/\ QueryInArgsDict
           => (search_result.kind = "return"
               /\ search_result.value.query = Get(ExtractArgs, "query"))
        /\ QueryFirstInArgsList
           => (search_result.kind = "return"
               /\ search_result.value.query = ExtractArgs.items[1])
        /\ QueryDirectKey
           => (search_result.kind = "return"
               /\ search_result.value.query = Get(ExtractArg, "query"))
        /\ ~(QueryInArgsDict \/ QueryFirstInArgsList \/ QueryDirectKey)
           => (search_result.kind = "raise" /\ search_result.type = "ValueError")
        /\ search_result.kind = "return" => search_result.value.query # JStr(""))

\* An empty query inside an args dictionary was refused.
C22_Witness ==
    /\ call_args.op = "_extract_query_and_kwargs"
    /\ HasKey(ExtractArg, "args") /\ IsDict(ExtractArgs)
    /\ HasKey(ExtractArgs, "query") /\ Get(ExtractArgs, "query") = JStr("")
    /\ search_result.kind = "raise"

\* EnhancedBraveSearchWrapper.run was called and has ended.
BraveWrapperRan == call_args.op = "EnhancedBraveSearchWrapper.run" /\ spc = "called"

C24_PassedCountRequested ==
    \A i \in 1..Len(search_requests) :
        (tool.kind = BraveTool /\ spc \in {"brave", "done"})
        => search_requests[i].json.count = PassedCount(tool)

\* C25: every request sent by SearxNGSearchAPIWrapper.results has q equal to
\* the query it was given and format equal to json, whatever the extra
\* keyword parameters.
C25_QueryAndJsonFormatSent ==
    call_args.op = "SearxNGSearchAPIWrapper.results"
    => \A i \in 1..Len(search_requests) :
          /\ Get(search_requests[i].params, "q") = JStr(call_args.query)
          /\ Get(search_requests[i].params, "format") = JStr("json")

\* The primary request raised a transport exception or was answered with a
\* 4xx or 5xx status.
PrimaryFailed ==
    \/ responses[1].exc
    \/ (responses[1].status >= 400 /\ responses[1].status < 600)

\* C26: Crawl4aiClient.crawl sends a second request exactly when the primary
\* request failed with a transport exception or an HTTP error status; before
\* the primary answer, and after a primary answer with a success status,
\* there is one request only.
C26_SecondRequestIffPrimaryFailed ==
    client = "crawl4ai"
    => (/\ responses = << >> => Len(requests) <= 1
        /\ responses # << >> => (Len(requests) >= 2 <=> PrimaryFailed))

\* A primary answer of 404 was followed by a second request.
C26_Witness ==
    /\ client = "crawl4ai"
    /\ responses # << >>
    /\ Answered(responses[1], 404)
    /\ Len(requests) = 2

\* The except handler's fallback request was answered with 200 and the call ended.
FallbackNormalized ==
    /\ client = "crawl4ai"
    /\ pc = "done"
    /\ caught # 0
    /\ Answered(responses[Len(responses)], HTTP_OK)

\* C27: the output the except handler gives after a fallback answered with 200
\* is the output the primary path's normalization gives for the same body and
\* URL, whether the body is a JSON object, a JSON array or not JSON.
C27_FallbackNormalizesAsPrimary ==
    /\ FallbackNormalized
       => result = Returned(NormalizePrimary(responses[Len(responses)].body, crawl_url))
    /\ \A b \in Bodies, u \in Urls : NormalizeFallback(b, u) = NormalizePrimary(b, u)

\* After a transport error the fallback answered with a JSON object that has
\* an entry for the URL under results, and its content was returned.
C27_Witness ==
    /\ FallbackNormalized
    /\ responses[1].exc
    /\ responses[Len(responses)].body.json
    /\ IsDict(responses[Len(responses)].body.v)
    /\ ~HasKey(responses[Len(responses)].body.v, "content")
    /\ HasKey(responses[Len(responses)].body.v, "results")
    /\ result.kind = "return"
    /\ result.value # Text(responses[Len(responses)].body)

\* C28: crawl_tool ends by returning, never by raising: the markdown when
\* crawling and conversion went through, and otherwise, also after the
\* RuntimeError of a failed fallback, a text that begins with
\* 'Failed to crawl. Error:'.
C28_CrawlToolNeverRaises ==
    crawl_output # Pending
    => (/\ crawl_output.kind = "return"
        /\ crawl_output.value.t \in {"markdown", "error_msg"}
        /\ crawl_output.value.t = "markdown"
           => (result.kind = "return" /\ crawl_output.value.of = result.value)
        /\ crawl_output.value.t = "error_msg"
           => crawl_output.value.prefix = "Failed to crawl. Error: "
        /\ result.kind = "raise"
           => (crawl_output.value.t = "error_msg"
               /\ crawl_output.value.repr = result.type))

\* The primary request and the fallback of Crawl4aiClient.crawl both failed,
\* and crawl_tool returned the failure message.
C28_Witness ==
    /\ client = "crawl4ai"
    /\ Len(responses) >= 2
    /\ result.kind = "raise"
    /\ result.type = "RuntimeError"
    /\ crawl_output.kind = "return"
    /\ crawl_output.value.t = "error_msg"

\* C30: LoggedToolMixin._run calls _run of the wrapped class once, with the
\* positional arguments it was given and with its keyword arguments except
\* the key args; it returns what that call returned, and raises what that
\* call raised.
C30_LoggedRunForwards ==
    call_args.op = "LoggedToolMixin._run"
    => (/\ Len(search_requests) = 1
        /\ search_requests[1].target = "super()._run"
        /\ search_requests[1].args = call_args.args
        /\ search_requests[1].kwargs.items
              = SelectSeq(call_args.kwargs.items, LAMBDA it : it[1] # "args")
        /\ spc = "called"
           => (/\ Len(search_responses) = 1
               /\ search_responses[1].exc
                  => search_result = Raised(search_responses[1].type, {})
               /\ ~search_responses[1].exc
                  => search_result = Returned(search_responses[1].value)))

\* _run was called with a key args next to another keyword argument, and
\* returned the result of the wrapped call, which got the other argument only.
C30_Witness ==
    /\ call_args.op = "LoggedToolMixin._run"
    /\ spc = "called"
    /\ HasKey(call_args.kwargs, "args")
    /\ HasKey(call_args.kwargs, "language")
    /\ Len(search_requests[1].kwargs.items) = 1
    /\ search_result.kind = "return"

\* The JSON text of an object with error true and a message.
IsErrorJson(r) ==
    /\ r.kind = "return"
    /\ r.value.t = "json"
    /\ Len(r.value.items) = 1
    /\ r.value.items[1].t = "dumps"
    /\ IsDict(r.value.items[1].v)
    /\ Keys(r.value.items[1].v) = <<"error", "message">>
    /\ Get(r.value.items[1].v, "error").v = "True"

\* The JSON text of a list.
IsListJson(r) ==
    /\ r.kind = "return"
    /\ r.value.t = "json"
    /\ Len(r.value.items) = 1
    /\ r.value.items[1].t = "dumps"
    /\ IsList(r.value.items[1].v)

\* The SearxNG instance answered with a success status and a JSON body.
SearxNGAnswerUsable(h) == ~h.exc /\ ~(h.status >= 400 /\ h.status < 600) /\ h.body.json

====
